---- MODULE Spec2Model ----
(***************************************************************************)
(* Calendar-Agent: the natural-language command interpreter (pattern-based *)
(* CalendarNLPParser and model-assisted DeepSeekCalendarParser) and the    *)
(* two command dispatchers (CalendarAgent, CalendarAgentDeepSeek).         *)
(*                                                                         *)
(* Text representation.  An input text is a sequence of tokens; the text   *)
(* the program sees is the tokens joined by single blanks.  A token is a   *)
(* word, an English time literal (3pm, 11:30pm, 15:30, 7) or a Chinese     *)
(* time literal (3dian, xiawu3dian, 4dian30fen).  Chinese words are        *)
(* written in pinyin:                                                      *)
(*   anpai=U+5B89 U+6392 (arrange)   chakan=U+67E5 U+770B (view)           *)
(*   shanchu=U+5220 U+9664 (delete)  mingtian=U+660E U+5929 (tomorrow)     *)
(*   xiazhou=U+4E0B U+5468 (next week) dao=U+5230 (to)                     *)
(*   xiawu=U+4E0B U+5348 (afternoon) shangwu=U+4E0A U+5348 (morning)       *)
(*   dian=U+70B9 (o'clock)  fen=U+5206 (minute)                            *)
(*   gengxin=U+66F4 U+65B0 (update)                                        *)
(* Optional values (Python None or a value) are sequences of length <= 1.  *)
(***************************************************************************)
EXTENDS Integers, Sequences, FiniteSets, TLC

VARIABLES
    pc,        \* position of the request being served
    text,      \* input text of the pattern-based parser (token sequence)
    now,       \* wall clock read by datetime.now() during the request
    result,    \* the record returned by parse_intent / parse_command
    reply,     \* what the completion service answers to the one request
    raised,    \* an exception left the method that was called
    requests,  \* number of requests sent to the completion service
    selected_calendar,  \* the calendar name passed to process_command
    store,     \* the events of the calendar store
    calls,     \* the calendar-store calls made, in order
    response,  \* the response string returned by process_command (its kind)
    parser,    \* the attributes of the one parser object every request uses
    reqs,      \* the interpretation requests being served concurrently
    frames     \* the local variables of the calls in progress, per call frame

vars == <<pc, text, now, result, reply, raised, requests, selected_calendar,
          store, calls, response, parser, reqs, frames>>

----------------------------------------------------------------------------
(* Bounds of the model *)

\* longest input text, in tokens
MaxLen == 4

----------------------------------------------------------------------------
(* Optional values *)

None == <<>>
Some(v) == <<v>>
IsSome(o) == o # <<>>
Val(o) == o[1]

----------------------------------------------------------------------------
(* datetime: naive local wall-clock values *)

DT(y, mo, d, h, mi, s, us) ==
    [y |-> y, mo |-> mo, d |-> d, h |-> h, mi |-> mi, s |-> s, us |-> us]

IsLeap(y) == (y % 4 = 0 /\ y % 100 # 0) \/ y % 400 = 0

DaysInMonth(y, mo) ==
    IF mo = 2 THEN (IF IsLeap(y) THEN 29 ELSE 28)
    ELSE IF mo \in {4, 6, 9, 11} THEN 30 ELSE 31

\* the calendar day after dt, clock time kept
NextDay(dt) ==
    IF dt.d < DaysInMonth(dt.y, dt.mo) THEN [dt EXCEPT !.d = dt.d + 1]
    ELSE IF dt.mo < 12 THEN [dt EXCEPT !.d = 1, !.mo = dt.mo + 1]
    ELSE [dt EXCEPT !.d = 1, !.mo = 1, !.y = dt.y + 1]

\* dt + timedelta(days=n)
RECURSIVE AddDays(_, _)
AddDays(dt, n) == IF n = 0 THEN dt ELSE AddDays(NextDay(dt), n - 1)

\* variant: one hour later on the clock face, the date kept
SameDayHourLater(dt) == [dt EXCEPT !.h = (dt.h + 1) % 24]

\* dt + timedelta(hours=1)
AddOneHour(dt) ==
    IF dt.h < 23 THEN [dt EXCEPT !.h = dt.h + 1]
    ELSE [NextDay(dt) EXCEPT !.h = 0]

\* datetime.replace(...) raises ValueError on a field out of range
ValidDT(dt) ==
    /\ dt.y \in 1..9999
    /\ dt.mo \in 1..12
    /\ dt.d \in 1..DaysInMonth(dt.y, dt.mo)
    /\ dt.h \in 0..23
    /\ dt.mi \in 0..59
    /\ dt.s \in 0..59
    /\ dt.us \in 0..999999

SameDate(a, b) == a.y = b.y /\ a.mo = b.mo /\ a.d = b.d

----------------------------------------------------------------------------
(* Tokens *)

NoMin == -1

W(s) == [k |-> "w", w |-> s, h |-> 0, m |-> NoMin, ap |-> ""]
\* English time literal H[:MM][am|pm]
EN(h, m, ap) == [k |-> "en", w |-> "", h |-> h, m |-> m, ap |-> ap]
\* Chinese time literal [shangwu|xiawu]H dian [M fen]
ZH(h, m, ap) == [k |-> "zh", w |-> "", h |-> h, m |-> m, ap |-> ap]

IsWord(t, ws) == t.k = "w" /\ t.w \in ws

\* words of the vocabulary that END with one of the alternatives in alts
\* (a regex alternative matches anywhere, also at the end of a longer word)
EndsWithAny(t, alts) ==
    /\ t.k = "w"
    /\ \/ t.w \in alts
       \/ (t.w = "reschedule" /\ "schedule" \in alts)

\* the token starts with \d{1,2}: what (\d{1,2}(?::\d{2})?\s*(?:am|pm)?) captures
StartsWithDigits(t) == t.k = "en" \/ (t.k = "zh" /\ t.ap = "")

\* the capture of the English time group at the start of token t: an English
\* literal is captured whole, of a Chinese literal only the hour digits
CaptureEN(t) == IF t.k = "en" THEN t ELSE EN(t.h, NoMin, "")

\* a string of digits only
Digits(n) == EN(n, NoMin, "")

----------------------------------------------------------------------------
(* CalendarNLPParser.__init__: the intent patterns *)

Intents == <<"create", "read", "update", "delete">>
NumPatterns == 3

CreateVerbs1 == {"create", "add", "schedule", "make", "book"}
CreateNouns1 == {"meeting", "event", "appointment"}
CreateVerbs2 == {"anpai", "chuangjian", "tianjia", "yuding", "xinjian"}
CreateVerbs3 == {"plan"}            \* and the two words "set up"
CreateNouns3 == {"meeting", "event"}

ReadVerbs1 == {"show", "list", "display", "view", "check"}  \* and "what is"
ReadNouns1 == {"schedule", "calendar", "events", "meetings"}
ReadVerbs2 == {"chakan", "xianshi", "liechu", "jiancha", "kankan"}
\* pattern 3: "when is" / "when do i have"

UpdateVerbs1 == {"update", "change", "modify", "reschedule", "move"}
UpdateNouns1 == {"meeting", "event", "appointment"}
UpdateVerbs2 == {"gengxin", "xiugai", "gaibian", "tiaozheng", "chongxinanpai"}
UpdateVerbs3 == {"edit", "alter"}
UpdateNouns3 == {"event", "meeting"}

DeleteVerbs1 == {"delete", "remove", "cancel", "clear"}
DeleteNouns1 == {"meeting", "event", "appointment"}
DeleteVerbs2 == {"shanchu", "quxiao", "yichu"}
DeleteVerbs3 == {"drop", "scratch"}
DeleteNouns3 == {"event", "meeting"}

\* a noun alternative matches at the START of the following word
StartsWithAny(t, alts) ==
    /\ t.k = "w"
    /\ \/ t.w \in alts
       \/ (t.w = "meetings" /\ "meeting" \in alts)
       \/ (t.w = "events" /\ "event" \in alts)

\* re.search of  (?:verbs)\s+(?:art\s+)?(?:nouns)
VerbNoun(txt, verbs, art, nouns) ==
    \E i \in 1..Len(txt) :
        /\ EndsWithAny(txt[i], verbs)
        /\ \/ (i + 1 <= Len(txt) /\ StartsWithAny(txt[i + 1], nouns))
           \/ (i + 2 <= Len(txt) /\ IsWord(txt[i + 1], {art})
                                 /\ StartsWithAny(txt[i + 2], nouns))

\* re.search of  (?:verbs)\s*(?:nouns)?  : the verb alone decides
VerbOnly(txt, verbs) ==
    \E i \in 1..Len(txt) : txt[i].k = "w" /\
        (txt[i].w \in verbs \/ (txt[i].w = "chongxinanpai" /\ "anpai" \in verbs))

\* re.search of two fixed words in a row
TwoWords(txt, w1, w2) ==
    \E i \in 1..Len(txt) - 1 : IsWord(txt[i], {w1}) /\ IsWord(txt[i + 1], {w2})

\* re.search(pattern, text) for pattern number p (1..3) of an intent
PatternMatches(intent, p, txt) ==
    CASE intent = "create" /\ p = 1 -> VerbNoun(txt, CreateVerbs1, "a", CreateNouns1)
      [] intent = "create" /\ p = 2 -> VerbOnly(txt, CreateVerbs2)
      [] intent = "create" /\ p = 3 ->
            \/ VerbNoun(txt, CreateVerbs3, "a", CreateNouns3)
            \/ \E i \in 1..Len(txt) - 2 :
                  /\ IsWord(txt[i], {"set"}) /\ IsWord(txt[i + 1], {"up"})
                  /\ \/ StartsWithAny(txt[i + 2], CreateNouns3)
                     \/ (i + 3 <= Len(txt) /\ IsWord(txt[i + 2], {"a"})
                                           /\ StartsWithAny(txt[i + 3], CreateNouns3))
      [] intent = "read" /\ p = 1 -> VerbNoun(txt, ReadVerbs1, "my", ReadNouns1)
      [] intent = "read" /\ p = 2 -> VerbOnly(txt, ReadVerbs2)
      [] intent = "read" /\ p = 3 -> TwoWords(txt, "when", "is")
      [] intent = "update" /\ p = 1 -> VerbNoun(txt, UpdateVerbs1, "a", UpdateNouns1)
      [] intent = "update" /\ p = 2 -> VerbOnly(txt, UpdateVerbs2)
      [] intent = "update" /\ p = 3 -> VerbNoun(txt, UpdateVerbs3, "the", UpdateNouns3)
      [] intent = "delete" /\ p = 1 -> VerbNoun(txt, DeleteVerbs1, "a", DeleteNouns1)
      [] intent = "delete" /\ p = 2 -> VerbOnly(txt, DeleteVerbs2)
      [] intent = "delete" /\ p = 3 -> VerbNoun(txt, DeleteVerbs3, "the", DeleteNouns3)

\* intent_scores.get(intent, 0) after the scan of all patterns
Score(intent, txt) ==
    Cardinality({p \in 1..NumPatterns : PatternMatches(intent, p, txt)})

\* variant: the keys in the reverse of the insertion order
ScoredIntentsReversed(txt) ==
    SelectSeq(<<"delete", "update", "read", "create">>,
              LAMBDA i : Score(i, txt) > 0)

\* the keys of intent_scores in insertion order: the intents that scored
ScoredIntents(txt) ==
    SelectSeq(Intents, LAMBDA i : Score(i, txt) > 0)

\* max(intent_scores, key=intent_scores.get): the first key with the
\* greatest score, in the dict's insertion order
RECURSIVE MaxKey(_, _, _)
MaxKey(keys, txt, best) ==
    IF keys = <<>> THEN best
    ELSE MaxKey(Tail(keys), txt,
                IF Score(Head(keys), txt) > Score(best, txt)
                THEN Head(keys) ELSE best)

ClassifyIntent(txt) ==
    LET keys == ScoredIntents(txt)
    IN  IF keys = <<>> THEN None ELSE Some(MaxKey(Tail(keys), txt, Head(keys)))

\* variant: the score itself, not divided by the number of patterns
UnnormalisedConfidence(txt) ==
    LET i == ClassifyIntent(txt)
    IN  IF IsSome(i) THEN <<Score(Val(i), txt), 1>> ELSE <<0, 1>>

\* result['confidence']: max(scores) / len(patterns of the intent) as the
\* fraction <<numerator, denominator>>; 0.0 is <<0, 1>>
Confidence(txt) ==
    LET i == ClassifyIntent(txt)
    IN  IF IsSome(i) THEN <<Score(Val(i), txt), NumPatterns>> ELSE <<0, 1>>

----------------------------------------------------------------------------
(* CalendarNLPParser._parse_time_string *)

\* dateutil: _adjust_ampm
AdjustAmPm(h, ap) ==
    IF h < 12 /\ ap = "pm" THEN h + 12
    ELSE IF h = 12 /\ ap = "am" THEN 0 ELSE h

\* dateutil: convertyear of a two-digit year, curYear the year of the clock
ConvertYear(yy, curYear) ==
    LET y == yy + (curYear \div 100) * 100
    IN  IF y >= curYear + 50 THEN y - 100
        ELSE IF y < curYear - 50 THEN y + 100 ELSE y

\* default.replace(**fields): a value, or ValueError (None after the except)
Replaced(dt) == IF ValidDT(dt) THEN Some(dt) ELSE None

\* dateutil.parser.parse(time_str, default=base_date) for the strings the
\* time patterns capture.  Only the fields the string names replace those of
\* the default:
\*   "Hpm"     the hour (H < 24; otherwise H is read as a day and the am/pm
\*             flag then finds no hour: ValueError)
\*   "H:MM"    hour and minute;  "H:MMpm" needs H <= 12
\*   "H"       a lone number is a DAY of the month (a year when above 31)
ParseEnglish(ts, base, curYear) ==
    IF ts.m = NoMin /\ ts.ap # "" THEN
        IF ts.h < 24 THEN Replaced([base EXCEPT !.h = AdjustAmPm(ts.h, ts.ap)])
        ELSE None
    ELSE IF ts.m # NoMin THEN
        IF ts.ap # "" /\ ts.h > 12 THEN None
        ELSE Replaced([base EXCEPT !.h = AdjustAmPm(ts.h, ts.ap), !.mi = ts.m])
    ELSE IF ts.h > 31 THEN
        LET y == ConvertYear(ts.h, curYear)
            d == IF base.d > DaysInMonth(y, base.mo)
                 THEN DaysInMonth(y, base.mo) ELSE base.d
        IN  Replaced([base EXCEPT !.y = y, !.d = d])
    ELSE Replaced([base EXCEPT !.d = ts.h])

\* the branch taken when the string contains "dian"
ParseChinese(ts, base) ==
    LET minute == IF ts.m = NoMin THEN 0 ELSE ts.m
        hour == IF ts.ap = "xiawu" /\ ts.h < 12 THEN ts.h + 12 ELSE ts.h
    IN  Replaced([base EXCEPT !.h = hour, !.mi = minute, !.s = 0, !.us = 0])

\* _parse_time_string(time_str, base_date); a time string is a token value,
\* kind "zh" when it contains "dian"
ParseTimeString(ts, base, curYear) ==
    IF ts.k = "zh" THEN ParseChinese(ts, base)
    ELSE ParseEnglish(ts, base, curYear)

----------------------------------------------------------------------------
(* CalendarNLPParser._extract_time_info *)

NumTimePatterns == 5

HasWord(txt, ws) == \E i \in 1..Len(txt) : IsWord(txt[i], ws)

\* base_date: now, +1 day for tomorrow/mingtian, else +1 week for
\* "next week"/xiazhou
BaseDate(txt, clock) ==
    IF HasWord(txt, {"tomorrow", "mingtian"}) THEN AddDays(clock, 1)
    ELSE IF TwoWords(txt, "next", "week") \/ HasWord(txt, {"xiazhou"})
         THEN AddDays(clock, 7)
    ELSE clock

\* the minute group of a Chinese literal: the digits, or '' (None)
MinGroup(t) == IF t.m = NoMin THEN None ELSE Some(Digits(t.m))

\* the day word and optional "at" of pattern 3 ending before position j
DayWordAt(txt, i) ==
    \/ IsWord(txt[i], {"tomorrow", "today"})
    \/ (i > 1 /\ IsWord(txt[i - 1], {"next"}) /\ IsWord(txt[i], {"week"}))

\* re.match of time pattern p at token i: <<match, tokens consumed>> or <<>>.
\* A match is the sequence of the groups as findall returns them (a string
\* for one group, a tuple otherwise), a group being None for ''.
MatchAt(p, txt, i) ==
    LET n == Len(txt) IN
    CASE p = 1 ->
            IF IsWord(txt[i], {"at", "from"}) /\ i + 1 <= n
               /\ StartsWithDigits(txt[i + 1])
            THEN <<<<Some(CaptureEN(txt[i + 1]))>>, 2>> ELSE <<>>
      [] p = 2 ->
            IF txt[i].k = "en" /\ i + 2 <= n
               /\ IsWord(txt[i + 1], {"to", "until", "-"})
               /\ StartsWithDigits(txt[i + 2])
            THEN <<<<Some(txt[i]), Some(CaptureEN(txt[i + 2]))>>, 3>> ELSE <<>>
      [] p = 3 ->
            IF DayWordAt(txt, i) /\ i + 1 <= n /\ StartsWithDigits(txt[i + 1])
            THEN <<<<Some(CaptureEN(txt[i + 1]))>>, 2>>
            ELSE IF DayWordAt(txt, i) /\ i + 2 <= n /\ IsWord(txt[i + 1], {"at"})
                    /\ StartsWithDigits(txt[i + 2])
            THEN <<<<Some(CaptureEN(txt[i + 2]))>>, 3>> ELSE <<>>
      [] p = 4 ->
            IF IsWord(txt[i], {"jintian", "mingtian", "xiazhou"}) /\ i + 1 <= n
               /\ txt[i + 1].k = "zh"
            THEN <<<<Some(Digits(txt[i + 1].h)), MinGroup(txt[i + 1])>>, 2>>
            ELSE <<>>
      [] p = 5 ->
            IF txt[i].k = "zh" /\ i + 2 <= n /\ IsWord(txt[i + 1], {"dao", "zhi"})
               /\ txt[i + 2].k = "zh" /\ txt[i + 2].ap = ""
            THEN <<<<Some(Digits(txt[i].h)), MinGroup(txt[i]),
                     Some(Digits(txt[i + 2].h)), MinGroup(txt[i + 2])>>, 3>>
            ELSE <<>>

\* re.findall(pattern, text): the non-overlapping matches, left to right
RECURSIVE FindAll(_, _, _)
FindAll(p, txt, i) ==
    IF i > Len(txt) THEN <<>>
    ELSE LET m == MatchAt(p, txt, i)
         IN  IF m = <<>> THEN FindAll(p, txt, i + 1)
             ELSE <<m[1]>> \o FindAll(p, txt, i + m[2])

NoTimeInfo == [start_time |-> None, end_time |-> None]

\* the body of "for match in matches" for one match
ApplyMatch(info, match, base, curYear) ==
    IF Len(match) = 1 THEN                          \* a string: single match
        LET st == ParseTimeString(Val(match[1]), base, curYear)
        IN  IF IsSome(st)
            THEN [start_time |-> st, end_time |-> Some(AddOneHour(Val(st)))]
            ELSE info
    ELSE IF Len(match) = 2 THEN                     \* tuple of 2: single time
        LET ts == IF IsSome(match[1]) THEN match[1] ELSE match[2]
            st == ParseTimeString(Val(ts), base, curYear)
        IN  IF IsSome(st)
            THEN [start_time |-> st, end_time |-> Some(AddOneHour(Val(st)))]
            ELSE info
    ELSE                                            \* tuple of >= 3: range
        LET st == ParseTimeString(Val(match[1]), base, curYear)
            en == ParseTimeString(Val(match[3]), base, curYear)
        IN  IF IsSome(st) /\ IsSome(en)
            THEN [start_time |-> st, end_time |-> en]
            ELSE info

RECURSIVE ApplyMatches(_, _, _, _)
ApplyMatches(info, matches, base, curYear) ==
    IF matches = <<>> THEN info
    ELSE ApplyMatches(ApplyMatch(info, Head(matches), base, curYear),
                      Tail(matches), base, curYear)

\* time_info after the first k patterns of time_patterns have been tried
RECURSIVE TimeInfoAfter(_, _, _)
TimeInfoAfter(k, txt, clock) ==
    IF k = 0 THEN NoTimeInfo
    ELSE ApplyMatches(TimeInfoAfter(k - 1, txt, clock), FindAll(k, txt, 1),
                      BaseDate(txt, clock), clock.y)

ExtractTimeInfo(txt, clock) == TimeInfoAfter(NumTimePatterns, txt, clock)

\* the strings one match hands to _parse_time_string
TimeStringsOf(match) ==
    IF Len(match) = 1 THEN {Val(match[1])}
    ELSE IF Len(match) = 2
    THEN {Val(IF IsSome(match[1]) THEN match[1] ELSE match[2])}
    ELSE {Val(match[1]), Val(match[3])}

\* every string handed to _parse_time_string while the text is scanned
TimeStrings(txt) ==
    UNION {UNION {TimeStringsOf(FindAll(p, txt, 1)[j]) :
                     j \in 1..Len(FindAll(p, txt, 1))} :
              p \in 1..NumTimePatterns}

\* the exception the try block of _parse_time_string ends with ("" when it
\* returns): dateutil and datetime.replace raise ValueError
TimeStringError(ts, base, curYear) ==
    IF ParseTimeString(ts, base, curYear) = None THEN "ValueError" ELSE ""

\* variant: no handler around the parsing
NoExceptionCaught == {}

\* the bare "except:" of _parse_time_string catches whatever is raised
CaughtByBareExcept == {"ValueError", "OverflowError", "TypeError"}

\* an exception leaves parse_intent
ParseIntentRaises(txt, clock) ==
    \E ts \in TimeStrings(txt) :
        TimeStringError(ts, BaseDate(txt, clock), clock.y)
            \notin ({""} \cup CaughtByBareExcept)

----------------------------------------------------------------------------
(* Strings as sequences of pieces: the tokens (or what a substitution left  *)
(* of them) and the blanks between them                                     *)

SP == W(" ")

\* the text as the program sees it: tokens joined by single blanks
RECURSIVE Pieces(_)
Pieces(txt) ==
    IF Len(txt) <= 1 THEN txt
    ELSE <<Head(txt), SP>> \o Pieces(Tail(txt))

IsSP(x) == x = SP

\* str.strip()
RECURSIVE LStrip(_)
LStrip(ps) == IF ps # <<>> /\ IsSP(Head(ps)) THEN LStrip(Tail(ps)) ELSE ps
RECURSIVE RStrip(_)
RStrip(ps) ==
    IF ps # <<>> /\ IsSP(ps[Len(ps)]) THEN RStrip(SubSeq(ps, 1, Len(ps) - 1))
    ELSE ps
Strip(ps) == RStrip(LStrip(ps))

\* the pieces after position i
From(ps, i) == SubSeq(ps, i, Len(ps))

\* number of blanks at the head of ps
RECURSIVE Blanks(_)
Blanks(ps) == IF ps # <<>> /\ IsSP(Head(ps)) THEN 1 + Blanks(Tail(ps)) ELSE 0

\* number of characters of a word as the program sees it (Chinese words
\* are written in pinyin here; each syllable is one character)
ZhWords ==
    {"anpai", "chakan", "shanchu", "gengxin", "mingtian", "xiazhou", "jintian"}
WordLen(w) ==
    IF w \in ZhWords THEN 2
    ELSE IF w \in {"dao", "zhi", "dian"} THEN 1
    ELSE IF w \in {"dianfen"} THEN 2
    ELSE IF w \in {"xiawudian", "shangwudian"} THEN 3
    ELSE IF w \in {"xiawudianfen", "shangwudianfen"} THEN 4
    ELSE Len(w)

NumLen(n) == IF n < 10 THEN 1 ELSE 2

CharLen(t) ==
    IF t.k = "w" THEN WordLen(t.w)
    ELSE IF t.k = "en"
    THEN NumLen(t.h) + (IF t.m = NoMin THEN 0 ELSE 3) + (IF t.ap = "" THEN 0 ELSE 2)
    ELSE (IF t.ap = "" THEN 0 ELSE 2) + NumLen(t.h) + 1
         + (IF t.m = NoMin THEN 0 ELSE NumLen(t.m) + 1)

RECURSIVE StrLen(_)
StrLen(ps) == IF ps = <<>> THEN 0 ELSE CharLen(Head(ps)) + StrLen(Tail(ps))

----------------------------------------------------------------------------
(* CalendarNLPParser._extract_title *)

TitleVerbs ==
    {"create", "add", "schedule", "make", "book",
     "anpai", "chuangjian", "tianjia", "yuding", "xinjian",
     "show", "list", "display", "view", "check",
     "update", "change", "modify", "delete", "remove", "cancel",
     "chakan", "xianshi", "liechu", "jiancha", "kankan",
     "gengxin", "xiugai", "shanchu", "quxiao"}
TitleNouns ==
    {"meeting", "event", "appointment", "huiyi", "shijian", "richeng", "yuehui"}

\* a word holding a command verb, and what stands before the verb in it
HoldsVerb(x, verbs) ==
    /\ x.k = "w"
    /\ \/ x.w \in verbs
       \/ (x.w = "reschedule" /\ "schedule" \in verbs)
       \/ (x.w = "chongxinanpai" /\ "anpai" \in verbs)
BeforeVerb(x) ==
    IF x.w = "reschedule" THEN <<W("re")>>
    ELSE IF x.w = "chongxinanpai" THEN <<W("chongxin")>> ELSE <<>>

\* what is left of a word after the noun at its start is removed
AfterNoun(x) == IF x.w \in {"meetings", "events"} THEN <<W("s")>> ELSE <<>>

\* re.sub(r'(?:verbs)\s*(?:a\s+)?(?:nouns)?', '', text)
RECURSIVE SubVerbPhrase(_)
SubVerbPhrase(ps) ==
    IF ps = <<>> THEN <<>>
    ELSE IF HoldsVerb(Head(ps), TitleVerbs) THEN
        LET r1 == Tail(ps)
            r2 == From(r1, Blanks(r1) + 1)
            r3 == IF Len(r2) >= 2 /\ IsWord(r2[1], {"a"}) /\ IsSP(r2[2])
                  THEN From(r2, 2 + Blanks(Tail(r2))) ELSE r2
        IN  IF r3 # <<>> /\ StartsWithAny(Head(r3), TitleNouns)
            THEN BeforeVerb(Head(ps)) \o AfterNoun(Head(r3))
                 \o SubVerbPhrase(Tail(r3))
            ELSE BeforeVerb(Head(ps)) \o SubVerbPhrase(r3)
    ELSE <<Head(ps)>> \o SubVerbPhrase(Tail(ps))

TimeWords ==
    {"at", "on", "from", "to", "until", "between", "jintian", "mingtian",
     "xiazhou", "shangwu", "xiawu", "dian", "fen", "dianzhong"}
EnTimeWords == {"at", "on", "from", "to", "until", "between"}

\* what a substitution that removes the words ws leaves of the word w
WordMinus(w, ws) ==
    IF w \in ws THEN ""
    ELSE IF w = "tomorrow" /\ "to" \in ws THEN "morrow"
    ELSE IF w = "create" /\ "at" \in ws THEN "cree"
    ELSE IF w = "update" /\ "at" \in ws THEN "upde"
    ELSE IF w = "meeting" /\ "in" \in ws THEN "meetg"
    ELSE IF w = "meetings" /\ "in" \in ws THEN "meetgs"
    ELSE IF w = "reschedule" /\ "schedule" \in ws THEN "re"
    ELSE w

\* what the removal of digits (and of the time words ws) leaves of a Chinese
\* time literal
ZhMinus(t, ws) ==
    (IF t.ap = "" \/ t.ap \in ws THEN "" ELSE t.ap)
    \o (IF "dian" \in ws THEN "" ELSE "dian")
    \o (IF t.m = NoMin \/ "fen" \in ws THEN "" ELSE "fen")

\* re.sub(r'(?:ws|\d{1,2}(?::\d{2})?\s*(?:am|pm)?)', '', text): an English
\* time literal goes, with the blanks after it when it has no am/pm
RECURSIVE SubTimeWords(_, _)
SubTimeWords(ps, ws) ==
    IF ps = <<>> THEN <<>>
    ELSE LET x == Head(ps) IN
        IF x.k = "en" THEN
            IF x.ap = "" THEN SubTimeWords(From(Tail(ps), Blanks(Tail(ps)) + 1), ws)
            ELSE SubTimeWords(Tail(ps), ws)
        ELSE IF x.k = "zh" THEN
            (IF ZhMinus(x, ws) = "" THEN <<>> ELSE <<W(ZhMinus(x, ws))>>)
            \o SubTimeWords(Tail(ps), ws)
        ELSE IF IsSP(x) THEN <<x>> \o SubTimeWords(Tail(ps), ws)
        ELSE (IF WordMinus(x.w, ws) = "" THEN <<>> ELSE <<W(WordMinus(x.w, ws))>>)
             \o SubTimeWords(Tail(ps), ws)

\* re.sub of an alternation of plain words
RECURSIVE SubWords(_, _)
SubWords(ps, ws) ==
    IF ps = <<>> THEN <<>>
    ELSE LET x == Head(ps) IN
        IF x.k # "w" \/ IsSP(x) THEN <<x>> \o SubWords(Tail(ps), ws)
        ELSE (IF WordMinus(x.w, ws) = "" THEN <<>> ELSE <<W(WordMinus(x.w, ws))>>)
             \o SubWords(Tail(ps), ws)

LocationWords ==
    {"in", "at", "location", "didian", "weizhi", "huiyishi", "room", "office",
     "fangjian"}
Connectors == {"he", "yu", "with", "for", "about"}

ExtractTitle(txt) ==
    LET c1 == Strip(SubVerbPhrase(Pieces(txt)))
        c2 == Strip(SubTimeWords(c1, TimeWords))
        c3 == Strip(SubWords(c2, LocationWords))
        c4 == Strip(SubWords(c3, Connectors))
    IN  IF c4 = <<>> THEN None ELSE Some(c4)

----------------------------------------------------------------------------
(* CalendarNLPParser._extract_location *)

LocationMarkers1 == {"in", "at", "location", "didian", "weizhi"}
LocationMarkers2 == {"huiyishi", "room", "office"}

\* re.search(r'(?:markers)\s+([^.,!?]+)', text): the text after the first
\* marker that is followed by a blank, to the end (the vocabulary has no
\* punctuation), stripped; <<>> when there is no match
RECURSIVE AfterMarker(_, _)
AfterMarker(ps, markers) ==
    IF Len(ps) < 3 THEN <<>>
    ELSE IF IsWord(ps[1], markers) /\ IsSP(ps[2]) THEN Strip(From(ps, 3))
    ELSE AfterMarker(Tail(ps), markers)

LocationPieces(txt) ==
    LET l1 == AfterMarker(Pieces(txt), LocationMarkers1)
    IN  IF l1 # <<>> THEN l1 ELSE AfterMarker(Pieces(txt), LocationMarkers2)

ExtractLocation(txt) ==
    IF LocationPieces(txt) = <<>> THEN None ELSE Some(LocationPieces(txt))

----------------------------------------------------------------------------
(* CalendarNLPParser._extract_description *)

DescCommandWords ==
    {"create", "add", "schedule", "make", "book",
     "anpai", "chuangjian", "tianjia", "yuding"}

\* the piece x begins with the whole of piece l, and what follows l in x
BeginsWith(x, l) == x = l \/ (x = W("tomorrow") /\ l = W("to"))
AfterBegin(x, l) == IF x = l THEN <<>> ELSE <<W("morrow")>>

\* the one-piece string l occurs inside the word x, and what it leaves
Inside(x, l) ==
    /\ x.k = "w" /\ l.k = "w" /\ ~IsSP(x) /\ ~IsSP(l)
    /\ WordMinus(x.w, {l.w}) \notin {x.w, ""}
AroundInside(x, l) == <<W(WordMinus(x.w, {l.w}))>>

\* cleaned_text.replace(location, '')
RECURSIVE Replace(_, _)
Replace(ps, loc) ==
    LET n == Len(loc) IN
    IF ps = <<>> THEN <<>>
    ELSE IF Len(ps) >= n /\ SubSeq(ps, 1, n - 1) = SubSeq(loc, 1, n - 1)
            /\ BeginsWith(ps[n], loc[n])
    THEN AfterBegin(ps[n], loc[n]) \o Replace(From(ps, n + 1), loc)
    ELSE IF n = 1 /\ Inside(Head(ps), loc[1])
    THEN AroundInside(Head(ps), loc[1]) \o Replace(Tail(ps), loc)
    ELSE <<Head(ps)>> \o Replace(Tail(ps), loc)

ExtractDescription(txt, time_info, loc) ==
    LET c0 == Pieces(txt)
        c1 == IF IsSome(time_info.start_time)
              THEN SubTimeWords(c0, EnTimeWords) ELSE c0
        c2 == IF loc # <<>> THEN Replace(c1, loc) ELSE c1
        c3 == Strip(SubWords(c2, DescCommandWords))
    IN  IF c3 # <<>> /\ StrLen(c3) > 3 THEN Some(c3) ELSE None

----------------------------------------------------------------------------
(* CalendarNLPParser._extract_event_details and parse_intent *)

\* the dict returned by _extract_event_details: a key is set only when the
\* extractor found something (None here stands for "key not set")
ExtractEventDetails(txt, clock) ==
    LET ti == ExtractTimeInfo(txt, clock)
    IN  [title |-> ExtractTitle(txt),
         start_time |-> ti.start_time,
         end_time |-> ti.end_time,
         location |-> ExtractLocation(txt),
         description |-> ExtractDescription(txt, ti, LocationPieces(txt))]

\* result = {...} at the head of parse_intent
EmptyResult ==
    [intent |-> None, title |-> None, start_time |-> None, end_time |-> None,
     description |-> None, location |-> None, target_event |-> None,
     confidence |-> <<0, 1>>]

\* parse_intent(text): the initial result, the intent and confidence, then
\* result.update(details).  text.lower().strip() is the identity on token
\* sequences (the vocabulary is lower case, the join has no outer blanks).
ParseIntent(txt, clock) ==
    LET d == ExtractEventDetails(txt, clock)
    IN  [intent |-> ClassifyIntent(txt),
         title |-> d.title,
         start_time |-> d.start_time,
         end_time |-> d.end_time,
         description |-> d.description,
         location |-> d.location,
         target_event |-> None,
         confidence |-> Confidence(txt)]

----------------------------------------------------------------------------
(* DeepSeekCalendarParser.parse_command *)

\* the record both fallback branches return
NoneCommand ==
    [intent |-> None, title |-> None, start_time |-> None, end_time |-> None,
     description |-> None, location |-> None, target_event |-> None]

\* An ISO-8601 string of the response is the record of its fields (which may
\* be out of range) or garbage text.  datetime.fromisoformat raises
\* ValueError unless the string is a valid date-time.
Iso(y, mo, d, h, mi, s) ==
    [garbage |-> FALSE, y |-> y, mo |-> mo, d |-> d, h |-> h, mi |-> mi, s |-> s]
GarbageIso ==
    [garbage |-> TRUE, y |-> 0, mo |-> 0, d |-> 0, h |-> 0, mi |-> 0, s |-> 0]
IsoValid(v) == ~v.garbage /\ ValidDT(DT(v.y, v.mo, v.d, v.h, v.mi, v.s, 0))
\* variant: the date alone is kept
FromIsoDate(v) == DT(v.y, v.mo, v.d, 0, 0, 0, 0)
FromIsoFormat(v) == DT(v.y, v.mo, v.d, v.h, v.mi, v.s, 0)

\* The response text is a sequence of chunks: prose without braces, "{",
\* "}", and "B", the members of one JSON object (reply.body) without its
\* braces.
FirstIndex(content, c) ==
    IF \E i \in 1..Len(content) : content[i] = c
    THEN CHOOSE i \in 1..Len(content) :
            content[i] = c /\ \A j \in 1..(i - 1) : content[j] # c
    ELSE 0
\* variant: the closing brace is searched from the left, as find does
LeftmostIndex(content, c) == FirstIndex(content, c)
LastIndex(content, c) ==
    IF \E i \in 1..Len(content) : content[i] = c
    THEN CHOOSE i \in 1..Len(content) :
            content[i] = c /\ \A j \in (i + 1)..Len(content) : content[j] # c
    ELSE 0

\* json_start >= 0 and json_end > json_start, with json_start = find('{')
\* and json_end = rfind('}') + 1
HasJson(content) ==
    /\ FirstIndex(content, "{") > 0
    /\ LastIndex(content, "}") + 1 > FirstIndex(content, "{")

\* content[json_start:json_end]
JsonStr(content) ==
    SubSeq(content, FirstIndex(content, "{"), LastIndex(content, "}"))

\* json.loads(json_str): the members of the object, or JSONDecodeError
JsonDecodes(js) == js = <<"{", "B", "}">> \/ js = <<"{", "}">>
JsonLoads(js, body) == IF js = <<"{", "}">> THEN NoneCommand ELSE body

\* variant: a handler for the request's own exceptions only
RequestExceptions == {"ConnectionError", "Timeout", "HTTPError"}

\* the exceptions that "except Exception" catches: every exception the try
\* block can raise derives from Exception
CaughtByExcept ==
    {"ConnectionError", "Timeout", "HTTPError", "JSONDecodeError", "KeyError",
     "ValueError"}

\* the try block: <<exception raised or "", value returned, requests sent>>
TryParse(rep) ==
    IF rep.kind = "network_error" THEN <<"ConnectionError", NoneCommand, 1>>
    ELSE IF rep.kind = "timeout" THEN <<"Timeout", NoneCommand, 1>>
    ELSE IF rep.kind = "http_error" THEN <<"HTTPError", NoneCommand, 1>>
    ELSE IF rep.kind = "not_json" THEN <<"JSONDecodeError", NoneCommand, 1>>
    ELSE IF rep.kind = "bad_shape" THEN <<"KeyError", NoneCommand, 1>>
    ELSE IF ~HasJson(rep.content) THEN <<"", NoneCommand, 1>>
    ELSE IF ~JsonDecodes(JsonStr(rep.content))
         THEN <<"JSONDecodeError", NoneCommand, 1>>
    ELSE LET d == JsonLoads(JsonStr(rep.content), rep.body) IN
         IF IsSome(d.start_time) /\ ~IsoValid(Val(d.start_time))
         THEN <<"ValueError", NoneCommand, 1>>
         ELSE IF IsSome(d.end_time) /\ ~IsoValid(Val(d.end_time))
         THEN <<"ValueError", NoneCommand, 1>>
         ELSE <<"",
                [d EXCEPT
                   !.start_time = IF IsSome(d.start_time)
                                  THEN Some(FromIsoFormat(Val(d.start_time)))
                                  ELSE None,
                   !.end_time = IF IsSome(d.end_time)
                                THEN Some(FromIsoFormat(Val(d.end_time)))
                                ELSE None],
                1>>

\* parse_command(user_input): [ret, raised, requests]
ParseCommand(rep) ==
    LET t == TryParse(rep) IN
    IF t[1] = "" THEN [ret |-> t[2], raised |-> FALSE, requests |-> t[3]]
    ELSE IF t[1] \in CaughtByExcept
    THEN [ret |-> NoneCommand, raised |-> FALSE, requests |-> t[3]]
    ELSE [ret |-> NoneCommand, raised |-> TRUE, requests |-> t[3]]

----------------------------------------------------------------------------
(* AppleCalendarClient: the calendar store *)

\* self.calendars, in the order the server lists them
Calendars == <<"Home", "Work">>
EventIds == <<"e1", "e2">>

\* get_calendar_by_name(name) if name else get_default_calendar(); "" is None
CalendarFor(name) ==
    IF name = "" THEN Calendars[1]
    ELSE IF \E i \in 1..Len(Calendars) : Calendars[i] = name THEN name
    ELSE ""

\* [self.get_calendar_by_name(name)] if name else self.calendars, None skipped
CalendarsToSearch(name) ==
    IF name = "" THEN {Calendars[i] : i \in 1..Len(Calendars)}
    ELSE IF \E i \in 1..Len(Calendars) : Calendars[i] = name THEN {name}
    ELSE {}

\* store[id] = [cal, hit]: the calendar that holds the event ("" when there
\* is no such event) and whether the event meets what this request looks
\* for (the title query within the search window, or the date range)
Call(op, id, cal, start, end) ==
    [op |-> op, id |-> id, cal |-> cal, start_time |-> start, end_time |-> end]

\* search_events(query, calendar_name) and get_events(start, end,
\* calendar_name): the ids of the matching events of one calendar
FoundEvents(st, name) ==
    IF CalendarFor(name) = "" THEN <<>>
    ELSE SelectSeq(EventIds,
                   LAMBDA e : st[e].cal = CalendarFor(name) /\ st[e].hit)

\* delete_event(event_id, calendar_name): True when the event was found in
\* the calendars searched (and deleted)
DeleteFinds(st, id, name) ==
    \E i \in 1..Len(EventIds) :
        EventIds[i] = id /\ st[id].cal \in CalendarsToSearch(name)
AfterDelete(st, id, name) ==
    IF DeleteFinds(st, id, name)
    THEN [st EXCEPT ![id] = [cal |-> "", hit |-> FALSE]] ELSE st

\* update_event(event_id, ..., calendar_name): True when the event was found
UpdateFinds(st, id, name) == DeleteFinds(st, id, name)

----------------------------------------------------------------------------
(* CalendarAgentDeepSeek: the dispatcher of the model-assisted path *)

\* what a handler did: the response (by kind), the store calls in order, the
\* store afterwards, the parsed_intent dict afterwards, and whether an
\* exception left the handler
Outcome(resp, cs, st, cmd, exc) ==
    [response |-> resp, calls |-> cs, store |-> st, cmd |-> cmd, exc |-> exc]

\* _handle_create_event
DSHandleCreate(cmd, cal, st) ==
    IF ~IsSome(cmd.title) THEN Outcome("need_title", <<>>, st, cmd, FALSE)
    ELSE IF ~IsSome(cmd.start_time) THEN Outcome("need_time", <<>>, st, cmd, FALSE)
    ELSE LET start == Val(cmd.start_time)
             \* start_time.replace(hour=start_time.hour + 1)
             dflt == [start EXCEPT !.h = start.h + 1]
         IN  IF ~IsSome(cmd.end_time) /\ ~ValidDT(dflt)
             THEN Outcome("error", <<>>, st, cmd, TRUE)
             ELSE LET end == IF IsSome(cmd.end_time) THEN Val(cmd.end_time) ELSE dflt
                      c == Call("create_event", "", cal, Some(start), Some(end))
                  IN  IF CalendarFor(cal) = ""
                      THEN Outcome("error", <<c>>, st, cmd, TRUE)
                      ELSE Outcome("created", <<c>>, st, cmd, FALSE)

\* _handle_update_event
DSHandleUpdate(cmd, cal, st) ==
    LET noTarget == ~IsSome(cmd.target_event)
        found == FoundEvents(st, "")          \* search_events(title): no calendar
        search == Call("search_events", "", "", None, None)
    IN  IF noTarget /\ ~IsSome(cmd.title)
        THEN Outcome("need_target", <<>>, st, cmd, FALSE)
        ELSE IF noTarget /\ found = <<>>
        THEN Outcome("not_found", <<search>>, st, cmd, FALSE)
        ELSE LET cmd2 == IF noTarget
                         THEN [cmd EXCEPT !.target_event = Some(found[1])]
                         ELSE cmd
                 id == Val(cmd2.target_event)
                 cs == (IF noTarget THEN <<search>> ELSE <<>>)
                       \o <<Call("update_event", id, cal, cmd.start_time,
                                 cmd.end_time)>>
             IN  IF UpdateFinds(st, id, cal)
                 THEN Outcome("updated", cs, st, cmd2, FALSE)
                 ELSE Outcome("update_failed", cs, st, cmd2, FALSE)

\* the loop "for event in events: if delete_event(...): deleted_count += 1":
\* <<store, calls, deleted_count>>
RECURSIVE DeleteEach(_, _, _, _, _)
DeleteEach(events, cal, st, cs, n) ==
    IF events = <<>> THEN <<st, cs, n>>
    ELSE DeleteEach(Tail(events), cal, AfterDelete(st, Head(events), cal),
                    Append(cs, Call("delete_event", Head(events), cal, None, None)),
                    IF DeleteFinds(st, Head(events), cal) THEN n + 1 ELSE n)

\* _handle_delete_event
DSHandleDelete(cmd, cal, st) ==
    LET found == FoundEvents(st, cal)
        search == Call("search_events", "", cal, None, None)
        loop == DeleteEach(found, cal, st, <<search>>, 0)
    IN  IF cmd.target_event = Some("all") THEN
            IF ~IsSome(cmd.title) THEN Outcome("need_title_all", <<>>, st, cmd, FALSE)
            ELSE IF found = <<>> THEN Outcome("not_found", <<search>>, st, cmd, FALSE)
            ELSE IF loop[3] > 0 THEN Outcome("deleted_count", loop[2], loop[1], cmd, FALSE)
            ELSE Outcome("delete_failed", loop[2], loop[1], cmd, FALSE)
        ELSE IF ~IsSome(cmd.target_event) THEN
            IF ~IsSome(cmd.title) THEN Outcome("need_target", <<>>, st, cmd, FALSE)
            ELSE IF found = <<>> THEN Outcome("not_found", <<search>>, st, cmd, FALSE)
            ELSE IF loop[3] > 0 THEN Outcome("deleted_count", loop[2], loop[1], cmd, FALSE)
            ELSE Outcome("delete_failed", loop[2], loop[1], cmd, FALSE)
        ELSE LET id == Val(cmd.target_event)
                 c == Call("delete_event", id, cal, None, None)
             IN  IF DeleteFinds(st, id, cal)
                 THEN Outcome("deleted", <<c>>, AfterDelete(st, id, cal), cmd, FALSE)
                 ELSE Outcome("delete_failed_id", <<c>>, st, cmd, FALSE)

\* _handle_read_events
DSHandleRead(cmd, cal, st, clock) ==
    LET today0 == [clock EXCEPT !.h = 0, !.mi = 0, !.s = 0, !.us = 0]
        start == IF IsSome(cmd.start_time) THEN Val(cmd.start_time) ELSE today0
        end == IF IsSome(cmd.start_time) /\ IsSome(cmd.end_time)
               THEN Val(cmd.end_time)
               ELSE [start EXCEPT !.h = 23, !.mi = 59, !.s = 59]
        c == IF IsSome(cmd.title)
             THEN Call("search_events", "", cal, None, None)
             ELSE Call("get_events", "", cal, Some(start), Some(end))
        events == FoundEvents(st, cal)
        \* today.replace(day=today.day + 1)
        tomorrow == [today0 EXCEPT !.d = clock.d + 1]
    IN  IF events # <<>> THEN Outcome("listing", <<c>>, st, cmd, FALSE)
        ELSE IF SameDate(start, clock) THEN Outcome("no_events_today", <<c>>, st, cmd, FALSE)
        ELSE IF ~ValidDT(tomorrow) THEN Outcome("error", <<c>>, st, cmd, TRUE)
        ELSE IF SameDate(start, tomorrow)
        THEN Outcome("no_events_tomorrow", <<c>>, st, cmd, FALSE)
        ELSE Outcome("no_events_dated", <<c>>, st, cmd, FALSE)

\* process_command(user_input, selected_calendar): parse, dispatch on the
\* intent; "except Exception" turns what a handler raises into the error
\* response
DSProcessCommand(rep, cal, st, clock) ==
    LET p == ParseCommand(rep)
        cmd == p.ret
    IN  IF p.raised THEN Outcome("error", <<>>, st, cmd, FALSE)
        ELSE IF ~IsSome(cmd.intent) THEN Outcome("clarify", <<>>, st, cmd, FALSE)
        ELSE LET o == CASE Val(cmd.intent) = "create" -> DSHandleCreate(cmd, cal, st)
                        [] Val(cmd.intent) = "read" -> DSHandleRead(cmd, cal, st, clock)
                        [] Val(cmd.intent) = "update" -> DSHandleUpdate(cmd, cal, st)
                        [] Val(cmd.intent) = "delete" -> DSHandleDelete(cmd, cal, st)
                        [] OTHER -> Outcome("unsupported", <<>>, st, cmd, FALSE)
             IN  IF o.exc THEN [o EXCEPT !.response = "error", !.exc = FALSE] ELSE o

----------------------------------------------------------------------------
(* CalendarAgent: the dispatcher of the pattern path *)

\* variant: the title is not asked for
PHandleCreateUnchecked(cmd, st) ==
    IF ~IsSome(cmd.start_time) THEN Outcome("need_time", <<>>, st, cmd, FALSE)
    ELSE Outcome("created",
                 <<Call("create_event", "", "", cmd.start_time, cmd.end_time)>>,
                 st, cmd, FALSE)

\* _handle_create_event.  parsed_intent.get('end_time', default) evaluates
\* its default before the lookup, and the key is always in the dict that
\* parse_intent returns, so the value (absent or not) is what comes back.
PHandleCreate(cmd, st) ==
    IF ~IsSome(cmd.title) THEN Outcome("need_title", <<>>, st, cmd, FALSE)
    ELSE IF ~IsSome(cmd.start_time) THEN Outcome("need_time", <<>>, st, cmd, FALSE)
    ELSE LET start == Val(cmd.start_time)
             \* start_time.replace(hour=start_time.hour + 1)
             dflt == [start EXCEPT !.h = start.h + 1]
             c == Call("create_event", "", "", Some(start), cmd.end_time)
         IN  IF ~ValidDT(dflt) THEN Outcome("error", <<>>, st, cmd, TRUE)
             \* end_time.strftime on None
             ELSE IF ~IsSome(cmd.end_time) THEN Outcome("error", <<c>>, st, cmd, TRUE)
             ELSE Outcome("created", <<c>>, st, cmd, FALSE)

\* _handle_read_events.  parsed_intent.get('start_time', today) returns the
\* value under the key, which parse_intent always sets (to None when the text
\* names no time); None.replace raises AttributeError.
PHandleRead(cmd, st, clock) ==
    IF ~IsSome(cmd.start_time) THEN Outcome("error", <<>>, st, cmd, TRUE)
    ELSE LET start == Val(cmd.start_time)
             end == [start EXCEPT !.h = 23, !.mi = 59, !.s = 59]
             c == IF IsSome(cmd.title)
                  THEN Call("search_events", "", "", None, None)
                  ELSE Call("get_events", "", "", Some(start), Some(end))
         IN  IF FoundEvents(st, "") # <<>>
             THEN Outcome("listing", <<c>>, st, cmd, FALSE)
             ELSE Outcome("no_events_today", <<c>>, st, cmd, FALSE)

\* the head of _handle_update_event and _handle_delete_event: the target is
\* looked up by title when the command names none
\* a target lookup that takes the first event of the store, without the title
\* search
PFindFirstEvent(cmd, st) ==
    IF IsSome(cmd.target_event) \/ ~IsSome(cmd.title)
    THEN cmd
    ELSE [cmd EXCEPT !.target_event = Some(EventIds[1])]

PFindTarget(cmd, st) ==
    IF IsSome(cmd.target_event) \/ ~IsSome(cmd.title)
       \/ FoundEvents(st, "") = <<>>
    THEN cmd
    ELSE [cmd EXCEPT !.target_event = Some(FoundEvents(st, "")[1])]

\* _handle_update_event
PHandleUpdate(cmd, st) ==
    LET search == Call("search_events", "", "", None, None)
        cmd2 == PFindTarget(cmd, st)
        cs == IF IsSome(cmd.target_event) THEN <<>> ELSE <<search>>
    IN  IF ~IsSome(cmd.target_event) /\ ~IsSome(cmd.title)
        THEN Outcome("need_target", <<>>, st, cmd, FALSE)
        ELSE IF ~IsSome(cmd2.target_event)
        THEN Outcome("not_found", <<search>>, st, cmd, FALSE)
        ELSE LET id == Val(cmd2.target_event)
                 u == Call("update_event", id, "", cmd.start_time, cmd.end_time)
             IN  IF UpdateFinds(st, id, "")
                 THEN Outcome("updated", Append(cs, u), st, cmd2, FALSE)
                 ELSE Outcome("update_failed", Append(cs, u), st, cmd2, FALSE)

\* _handle_delete_event
PHandleDelete(cmd, st) ==
    LET search == Call("search_events", "", "", None, None)
        cmd2 == PFindTarget(cmd, st)
        cs == IF IsSome(cmd.target_event) THEN <<>> ELSE <<search>>
    IN  IF ~IsSome(cmd.target_event) /\ ~IsSome(cmd.title)
        THEN Outcome("need_target", <<>>, st, cmd, FALSE)
        ELSE IF ~IsSome(cmd2.target_event)
        THEN Outcome("not_found", <<search>>, st, cmd, FALSE)
        ELSE LET id == Val(cmd2.target_event)
                 d == Call("delete_event", id, "", None, None)
             IN  IF DeleteFinds(st, id, "")
                 THEN Outcome("deleted", Append(cs, d), AfterDelete(st, id, ""),
                              cmd2, FALSE)
                 ELSE Outcome("delete_failed_id", Append(cs, d), st, cmd2, FALSE)

\* variant: no "except Exception" around the dispatch
PUncaught(o) == o

\* the dispatch of process_command on the intent of the parsed command;
\* "except Exception" turns what a handler raises into the error response
PCaught(o) == IF o.exc THEN [o EXCEPT !.response = "error", !.exc = FALSE] ELSE o
PDispatch(cmd, clock, st) ==
    IF ~IsSome(cmd.intent) THEN Outcome("clarify", <<>>, st, cmd, FALSE)
    ELSE CASE Val(cmd.intent) = "create" -> PCaught(PHandleCreate(cmd, st))
           [] Val(cmd.intent) = "read" -> PCaught(PHandleRead(cmd, st, clock))
           [] Val(cmd.intent) = "update" -> PCaught(PHandleUpdate(cmd, st))
           [] Val(cmd.intent) = "delete" -> PCaught(PHandleDelete(cmd, st))
           [] OTHER -> Outcome("unsupported", <<>>, st, cmd, FALSE)

\* process_command(user_input): parse, then dispatch; what the parser raises
\* is turned into the error response as well
PProcessCommand(txt, clock, st) ==
    IF ParseIntentRaises(txt, clock)
    THEN Outcome("error", <<>>, st, EmptyResult, FALSE)
    ELSE PDispatch(ParseIntent(txt, clock), clock, st)

----------------------------------------------------------------------------
(* Inputs *)

\* the attributes set by CalendarNLPParser.__init__ and
\* DeepSeekCalendarParser.__init__
TheParser ==
    [intent_patterns |-> "intent_patterns", system_prompt |-> "template",
     api_key |-> "key", api_url |-> "url"]

\* one request at a time: nothing runs beside it
NoConcurrency == parser = TheParser /\ reqs = <<>> /\ frames = <<>>

\* the token sequences of length 0..MaxLen over a vocabulary
TextsOver(V) == UNION {[1..n -> V] : n \in 0..MaxLen}

\* vocabulary for intent classification
IntentVocab ==
    {W("create"), W("schedule"), W("plan"), W("anpai"), W("show"), W("chakan"),
     W("reschedule"), W("delete"), W("shanchu"), W("meeting"), W("a"), W("my"),
     W("lunch")}

\* vocabulary for time extraction
TimeVocab ==
    {W("create"), W("lunch"), W("at"), W("to"), W("tomorrow"), W("mingtian"),
     W("dao"),
     EN(3, NoMin, "pm"), EN(11, NoMin, "pm"), EN(11, 30, "pm"), EN(7, NoMin, ""),
     ZH(2, NoMin, ""), ZH(3, NoMin, "xiawu"), ZH(4, 30, "")}

\* vocabulary with time fragments that do not parse: an hour above 12 with
\* pm, an hour above 23 with pm, a day number some months lack
MalformedVocab ==
    {W("create"), W("meeting"), W("lunch"), W("at"), W("in"), W("tomorrow"),
     EN(3, NoMin, "pm"), EN(13, 30, "pm"), EN(25, NoMin, "pm"),
     EN(31, NoMin, "")}

\* wall-clock instants: a month end late in the evening, an ordinary
\* afternoon, and the small hours before a leap day
Nows ==
    {DT(2025, 1, 31, 23, 45, 10, 500), DT(2025, 3, 2, 14, 20, 0, 0),
     DT(2024, 2, 28, 3, 0, 59, 0)}

\* length bound of the completion text, in chunks
MaxContent == 4

\* the completion texts of length 0..MaxContent
Contents == UNION {[1..n -> {"prose", "{", "}", "B"}] : n \in 0..MaxContent}

\* ISO strings a completion may carry: a morning time, a late-evening time,
\* a date that does not exist, text that is no date
StartStrings ==
    {Iso(2025, 3, 3, 10, 0, 0), Iso(2025, 3, 3, 23, 30, 0),
     Iso(2025, 2, 30, 9, 0, 0), GarbageIso}
EndStrings == {Iso(2025, 3, 3, 12, 0, 0), GarbageIso}

Opt(S) == {None} \cup {Some(v) : v \in S}

\* the JSON objects a completion may carry
BodiesOver(intents, targets) ==
    [intent : Opt(intents), title : Opt({"sync"}), start_time : Opt(StartStrings),
     end_time : Opt(EndStrings), description : {None}, location : {None},
     target_event : Opt(targets)]

NoReply == [kind |-> "none", content |-> <<>>, body |-> NoneCommand]
FailureKinds == {"network_error", "timeout", "http_error", "not_json", "bad_shape"}
FailedReplies ==
    {[kind |-> k, content |-> <<>>, body |-> NoneCommand] : k \in FailureKinds}

\* outcomes of the completion call seen by parse_command alone
ModelReplies ==
    FailedReplies \cup
    {[kind |-> "ok", content |-> c, body |-> b] :
        c \in Contents, b \in BodiesOver({"create"}, {})}

\* outcomes of the completion call seen through the dispatcher
AgentReplies ==
    FailedReplies \cup
    {[kind |-> "ok", content |-> <<"{", "B", "}">>, body |-> b] :
        b \in BodiesOver({"create", "read", "update", "delete", "share"},
                         {"all", "e1", "e9"})}

\* the calendar chosen in the UI: none, an existing one, one that is gone
SelectedCalendars == {"", "Work", "Ghost"}

NoEvent == [cal |-> "", hit |-> FALSE]
Stores ==
    [{EventIds[i] : i \in 1..Len(EventIds)} ->
        {NoEvent} \cup [cal : {"Home", "Work"}, hit : BOOLEAN]]
EmptyStore == [e \in {EventIds[i] : i \in 1..Len(EventIds)} |-> NoEvent]

----------------------------------------------------------------------------
(* The pattern-based interpreter as a state machine *)

InitIntent ==
    /\ pc = "start"
    /\ text \in TextsOver(IntentVocab)
    /\ now \in Nows
    /\ result = EmptyResult
    /\ reply = NoReply
    /\ raised = FALSE
    /\ requests = 0
    /\ selected_calendar = ""
    /\ store = EmptyStore
    /\ calls = <<>>
    /\ response = ""
    /\ NoConcurrency

InitTime ==
    /\ pc = "start"
    /\ text \in TextsOver(TimeVocab)
    /\ now \in Nows
    /\ result = EmptyResult
    /\ reply = NoReply
    /\ raised = FALSE
    /\ requests = 0
    /\ selected_calendar = ""
    /\ store = EmptyStore
    /\ calls = <<>>
    /\ response = ""
    /\ NoConcurrency

InitMalformed ==
    /\ pc = "start"
    /\ text \in TextsOver(MalformedVocab)
    /\ now \in Nows
    /\ result = EmptyResult
    /\ reply = NoReply
    /\ raised = FALSE
    /\ requests = 0
    /\ selected_calendar = ""
    /\ store = EmptyStore
    /\ calls = <<>>
    /\ response = ""
    /\ NoConcurrency

\* CalendarNLPParser.parse_intent(text)
ParseIntentCall ==
    /\ pc = "start"
    /\ raised' = ParseIntentRaises(text, now)
    /\ result' = IF ParseIntentRaises(text, now) THEN result
                 ELSE ParseIntent(text, now)
    /\ pc' = "parsed"
    /\ UNCHANGED <<text, now, reply, requests, selected_calendar, store, calls,
                   response>>
    /\ UNCHANGED <<parser, reqs, frames>>

NextNLP == ParseIntentCall

SpecIntent == InitIntent /\ [][NextNLP]_vars
SpecTime == InitTime /\ [][NextNLP]_vars
SpecMalformed == InitMalformed /\ [][NextNLP]_vars

\* time passes between two calls: a microsecond, a minute, or a day
ClockAdvances ==
    /\ pc = "parsed"
    /\ now' \in {[now EXCEPT !.us = now.us + 1],
                 [now EXCEPT !.mi = (now.mi + 1) % 60],
                 AddDays(now, 1)}
    /\ pc' = "waited"
    /\ UNCHANGED <<text, result, reply, raised, requests, selected_calendar,
                   store, calls, response>>
    /\ UNCHANGED <<parser, reqs, frames>>

\* a second CalendarNLPParser.parse_intent(text) on the same parser object
ParseIntentAgain ==
    /\ pc \in {"parsed", "waited"}
    /\ raised' = ParseIntentRaises(text, now)
    /\ result' = IF ParseIntentRaises(text, now) THEN result
                 ELSE ParseIntent(text, now)
    /\ pc' = "parsed_again"
    /\ UNCHANGED <<text, now, reply, requests, selected_calendar, store, calls,
                   response>>
    /\ UNCHANGED <<parser, reqs, frames>>

NextRepeat == ParseIntentCall \/ ClockAdvances \/ ParseIntentAgain

SpecRepeat == InitMalformed /\ [][NextRepeat]_vars

----------------------------------------------------------------------------
(* The model-assisted interpreter as a state machine *)

InitModel ==
    /\ pc = "start"
    /\ text = <<>>
    /\ now = DT(2025, 3, 2, 14, 20, 0, 0)
    /\ result = NoneCommand
    /\ reply \in ModelReplies
    /\ raised = FALSE
    /\ requests = 0
    /\ selected_calendar = ""
    /\ store = EmptyStore
    /\ calls = <<>>
    /\ response = ""
    /\ NoConcurrency

\* variant: a failed request is sent a second time
ParseCommandCallRetrying ==
    /\ pc = "start"
    /\ result' = ParseCommand(reply).ret
    /\ raised' = ParseCommand(reply).raised
    /\ requests' = requests + (IF reply.kind = "ok" THEN 1 ELSE 2)
    /\ pc' = "parsed"
    /\ UNCHANGED <<text, now, reply, selected_calendar, store, calls, response>>
    /\ UNCHANGED <<parser, reqs, frames>>

\* DeepSeekCalendarParser.parse_command(user_input)
ParseCommandCall ==
    /\ pc = "start"
    /\ result' = ParseCommand(reply).ret
    /\ raised' = ParseCommand(reply).raised
    /\ requests' = requests + ParseCommand(reply).requests
    /\ pc' = "parsed"
    /\ UNCHANGED <<text, now, reply, selected_calendar, store, calls, response>>
    /\ UNCHANGED <<parser, reqs, frames>>

NextModel == ParseCommandCall

SpecModel == InitModel /\ [][NextModel]_vars

----------------------------------------------------------------------------
(* The model-assisted dispatcher as a state machine *)

InitAgent ==
    /\ pc = "start"
    /\ text = <<>>
    /\ now \in Nows
    /\ result = NoneCommand
    /\ reply \in AgentReplies
    /\ raised = FALSE
    /\ requests = 0
    /\ selected_calendar \in SelectedCalendars
    /\ store \in Stores
    /\ calls = <<>>
    /\ response = ""
    /\ NoConcurrency

\* CalendarAgentDeepSeek.process_command(user_input, selected_calendar)
ProcessCommandCall ==
    /\ pc = "start"
    /\ LET o == DSProcessCommand(reply, selected_calendar, store, now)
       IN  /\ result' = o.cmd
           /\ response' = o.response
           /\ calls' = o.calls
           /\ store' = o.store
           /\ raised' = o.exc
    /\ requests' = requests + ParseCommand(reply).requests
    /\ pc' = "done"
    /\ UNCHANGED <<text, now, reply, selected_calendar>>
    /\ UNCHANGED <<parser, reqs, frames>>

NextAgent == ProcessCommandCall

SpecAgent == InitAgent /\ [][NextAgent]_vars

\* vocabulary for the pattern path: a command of each intent, a title word
\* and a time of day
DispatchVocab ==
    {W("anpai"), W("chakan"), W("gengxin"), W("shanchu"),
     W("lunch"), W("at"), EN(3, NoMin, "pm")}

\* a CalendarAgent that has not been given its command yet
InitPattern ==
    /\ pc = "ready"
    /\ text \in TextsOver(DispatchVocab)
    /\ now = DT(2025, 3, 2, 14, 20, 0, 0)
    /\ result = EmptyResult
    /\ reply = NoReply
    /\ raised = FALSE
    /\ requests = 0
    /\ selected_calendar = ""
    /\ store \in Stores
    /\ calls = <<>>
    /\ response = ""
    /\ NoConcurrency

\* CalendarAgent.process_command(user_input)
PatternProcessCommandCall ==
    /\ pc = "ready"
    /\ \E out \in {PProcessCommand(text, now, store)} :
           /\ result' = out.cmd
           /\ response' = out.response
           /\ calls' = out.calls
           /\ store' = out.store
           /\ raised' = out.exc
    /\ pc' = "done"
    /\ UNCHANGED <<text, now, reply, requests, selected_calendar>>
    /\ UNCHANGED <<parser, reqs, frames>>

\* either agent, given one command
InitDispatch == InitAgent \/ InitPattern
NextDispatch == ProcessCommandCall \/ PatternProcessCommandCall
SpecDispatch == InitDispatch /\ [][NextDispatch]_vars

\* commands for the pattern-path agent that start late in the evening, with
\* and without a time range
CreateVocab ==
    {W("anpai"), W("lunch"), W("at"), W("to"),
     EN(3, NoMin, "pm"), EN(11, NoMin, "pm"), EN(11, 30, "pm")}

\* a CalendarAgent with an empty calendar, before its command
InitCreate ==
    /\ pc = "ready"
    /\ text \in TextsOver(CreateVocab)
    /\ now = DT(2025, 3, 2, 14, 20, 0, 0)
    /\ result = EmptyResult
    /\ reply = NoReply
    /\ raised = FALSE
    /\ requests = 0
    /\ selected_calendar = ""
    /\ store = EmptyStore
    /\ calls = <<>>
    /\ response = ""
    /\ NoConcurrency

SpecCreate == InitCreate /\ [][PatternProcessCommandCall]_vars

----------------------------------------------------------------------------
(* DeepSeekCalendarParser._should_enable_reasoning *)

\* Here a text is the sequence of its characters, a Chinese character being
\* written as its pinyin syllable; characters that share a syllable carry a
\* digit: jin1 (U+4ECA) and jin4 (U+8FD1), wu (U+5348) and wu5 (U+4E94),
\* yue (U+6708) and yue1 (U+7EA6).

\* keyword in user_input
Contains(txt, kw) ==
    \E i \in 1..(Len(txt) - Len(kw) + 1) : SubSeq(txt, i, i + Len(kw) - 1) = kw

\* any(keyword in user_input for keyword in keywords)
ContainsAny(txt, kws) == \E kw \in kws : Contains(txt, kw)

time_keywords ==
    {<<"jin1", "tian">>, <<"ming", "tian">>, <<"hou", "tian">>,
     <<"shang", "wu">>, <<"xia", "wu">>, <<"wan", "shang">>,
     <<"ling", "chen">>, <<"zao", "chen">>, <<"zao", "shang">>}

relative_time_patterns ==
    {<<"xia", "zhou">>, <<"xia", "ge", "yue">>, <<"xia", "ge", "xing", "qi">>,
     <<"zhe", "zhou">>, <<"zhe", "ge", "yue">>, <<"zhe", "ge", "xing", "qi">>,
     <<"yue", "di">>, <<"yue", "chu">>, <<"nian", "zhong">>, <<"nian", "di">>,
     <<"nian", "chu">>, <<"gong", "zuo", "ri">>, <<"zhou", "mo">>,
     <<"jie", "jia", "ri">>, <<"jia", "qi">>}

Weekdays == {"yi", "er", "san", "si", "wu5", "liu", "ri"}

specific_date_patterns ==
    {<<"xia", "zhou", d>> : d \in Weekdays} \cup
    {<<"zhe", "zhou", d>> : d \in Weekdays}

vague_time_patterns ==
    {<<"zui", "jin4">>, <<"guo", "ji", "tian">>, <<"ji", "tian", "hou">>,
     <<"xia", "zhou", "zuo", "you">>, <<"da", "gai">>, <<"da", "yue1">>,
     <<"zuo", "you">>, <<"qian", "hou">>, <<"cha", "bu", "duo">>}

\* variant: the weekday phrases do not suppress the relative-time trigger
ReasoningWithoutSuppression(user_input, current_hour) ==
    \/ current_hour \in 0..6 /\ ContainsAny(user_input, time_keywords)
    \/ ContainsAny(user_input, relative_time_patterns)
    \/ ContainsAny(user_input, vague_time_patterns)

\* _should_enable_reasoning(user_input), current_hour = datetime.now().hour
ShouldEnableReasoning(user_input, current_hour) ==
    IF current_hour \in 0..6 /\ ContainsAny(user_input, time_keywords) THEN TRUE
    ELSE IF /\ ContainsAny(user_input, relative_time_patterns)
            /\ ~ContainsAny(user_input, specific_date_patterns) THEN TRUE
    ELSE IF ContainsAny(user_input, vague_time_patterns) THEN TRUE
    ELSE FALSE

\* number of phrases a text is put together from
MaxChunks == 3

\* the phrases: mingtian, xiawu, kaihui, xiazhou, yi (one / Monday), zuoyou,
\* yuedi, zhoumo, dagai
Chunks ==
    {<<"ming", "tian">>, <<"xia", "wu">>, <<"kai", "hui">>, <<"xia", "zhou">>,
     <<"yi">>, <<"zuo", "you">>, <<"yue", "di">>, <<"zhou", "mo">>,
     <<"da", "gai">>}

\* the characters of a sequence of phrases, one after the other
RECURSIVE Flatten(_)
Flatten(cs) == IF cs = <<>> THEN <<>> ELSE Head(cs) \o Flatten(Tail(cs))

ReasoningTexts ==
    {Flatten(cs) : cs \in UNION {[1..n -> Chunks] : n \in 0..MaxChunks}}

\* wall-clock instants around the night window, on two dates
ReasoningClocks ==
    {DT(2025, 3, 2, h, 0, 0, 0) : h \in {0, 3, 6, 7, 14, 23}} \cup
    {DT(2024, 2, 28, h, 45, 10, 500) : h \in {0, 3, 6, 7, 14, 23}}

InitReasoning ==
    /\ pc = "start"
    /\ text \in ReasoningTexts
    /\ now \in ReasoningClocks
    /\ result = [enable_reasoning |-> FALSE]
    /\ reply = NoReply
    /\ raised = FALSE
    /\ requests = 0
    /\ selected_calendar = ""
    /\ store = EmptyStore
    /\ calls = <<>>
    /\ response = ""
    /\ NoConcurrency

\* DeepSeekCalendarParser._should_enable_reasoning(user_input)
ShouldEnableReasoningCall ==
    /\ pc = "start"
    /\ result' = [enable_reasoning |-> ShouldEnableReasoning(text, now.h)]
    /\ pc' = "decided"
    /\ UNCHANGED <<text, now, reply, raised, requests, selected_calendar,
                   store, calls, response>>
    /\ UNCHANGED <<parser, reqs, frames>>

NextReasoning == ShouldEnableReasoningCall

SpecReasoning == InitReasoning /\ [][NextReasoning]_vars

----------------------------------------------------------------------------
(* Properties of the pattern-based interpreter *)

\* the six detail fields of a returned record are all absent
DetailsAbsent(r) ==
    /\ r.title = None
    /\ r.start_time = None
    /\ r.end_time = None
    /\ r.description = None
    /\ r.location = None
    /\ r.target_event = None

\* C1: whenever parse_intent returns intent = none, the fields title,
\* start_time, end_time, description, location and target_event of the
\* returned record are all absent.
C1_NoIntentNoDetails ==
    (pc = "parsed" /\ result.intent = None) => DetailsAbsent(result)

\* some pattern of some intent matches the text
AnyPatternMatches(txt) ==
    \E i \in 1..Len(Intents) :
        \E p \in 1..NumPatterns : PatternMatches(Intents[i], p, txt)

\* the position of an intent in the order create, read, update, delete
IntentIndex(name) == CHOOSE i \in 1..Len(Intents) : Intents[i] = name

\* the number of patterns of an intent that match, counted one by one
MatchCount(name, txt) ==
    Cardinality({p \in 1..NumPatterns : PatternMatches(name, p, txt)})

\* C5: the returned intent has the maximal number of matching patterns, a
\* tie goes to the intent that comes first in the order create, read,
\* update, delete, and the intent is none exactly when no pattern of any
\* intent matches.
C5_IntentIsFirstArgmax ==
    pc = "parsed" =>
        /\ result.intent = None <=> ~AnyPatternMatches(text)
        /\ IsSome(result.intent) =>
            LET w == Val(result.intent) IN
            /\ \E i \in 1..Len(Intents) : Intents[i] = w
            /\ \A i \in 1..Len(Intents) :
                  /\ MatchCount(Intents[i], text) <= MatchCount(w, text)
                  /\ i < IntentIndex(w) =>
                        MatchCount(Intents[i], text) < MatchCount(w, text)

\* C5 happens: two intents tie on the maximal score and the earlier one of
\* the order is returned
C5_TieResolved ==
    /\ pc = "parsed"
    /\ result.intent = Some("read")
    /\ MatchCount("read", text) = MatchCount("delete", text)
    /\ MatchCount("create", text) < MatchCount("read", text)

\* C6: the confidence equals the winning intent's score divided by the
\* number of its patterns, lies in [0,1], and is 0 exactly when the intent
\* is none.  The confidence is the fraction <<numerator, denominator>>.
C6_ConfidenceIsScoreRatio ==
    pc = "parsed" =>
        LET c == result.confidence IN
        /\ c[2] > 0
        /\ 0 <= c[1] /\ c[1] <= c[2]
        /\ c[1] = 0 <=> result.intent = None
        /\ IsSome(result.intent) =>
              c[1] * NumPatterns = MatchCount(Val(result.intent), text) * c[2]

\* C6 happens: an intent wins with two of its three patterns
C6_PartialConfidence ==
    /\ pc = "parsed"
    /\ IsSome(result.intent)
    /\ result.confidence[1] * 3 = 2 * result.confidence[2]

----------------------------------------------------------------------------
(* Properties of the pattern-based time extractor *)

\* every match of every pattern, in the order the loops visit them
RECURSIVE AllMatches(_, _)
AllMatches(k, txt) ==
    IF k = 0 THEN <<>> ELSE AllMatches(k - 1, txt) \o FindAll(k, txt, 1)

\* the times of the first match that produces a time, if any does
RECURSIVE FirstTime(_, _, _)
FirstTime(matches, base, curYear) ==
    IF matches = <<>> THEN NoTimeInfo
    ELSE LET info == ApplyMatch(NoTimeInfo, Head(matches), base, curYear)
         IN  IF IsSome(info.start_time) THEN info
             ELSE FirstTime(Tail(matches), base, curYear)

\* C7: the first pattern that matches determines start_time and end_time:
\* once a pattern has produced a time, no later pattern and no later match
\* changes start_time or end_time of the result.
C7_FirstTimeWins ==
    pc = "parsed" =>
        LET first == FirstTime(AllMatches(NumTimePatterns, text),
                               BaseDate(text, now), now.y)
        IN  /\ result.start_time = first.start_time
            /\ result.end_time = first.end_time

\* a time literal: a token that is not a word
TimeLiterals(txt) == {i \in 1..Len(txt) : txt[i].k # "w"}

\* the hour and minute a time literal names
NamedHour(t) ==
    IF t.k = "en" THEN AdjustAmPm(t.h, t.ap)
    ELSE IF t.ap = "xiawu" /\ t.h < 12 THEN t.h + 12 ELSE t.h
NamedMinute(t) == IF t.m = NoMin THEN 0 ELSE t.m

\* the text is a range at position i: A to B, or A dian dao B dian, both
\* literals naming a time of day, and it holds no other time literal
IsRangeAt(txt, i) ==
    /\ i + 2 <= Len(txt)
    /\ TimeLiterals(txt) = {i, i + 2}
    /\ \/ /\ txt[i].k = "en" /\ txt[i + 2].k = "en"
          /\ txt[i].ap # "" /\ txt[i + 2].ap # ""
          /\ IsWord(txt[i + 1], {"to", "until"})
       \/ /\ txt[i].k = "zh" /\ txt[i + 2].k = "zh"
          /\ IsWord(txt[i + 1], {"dao"})

\* C8: for an explicit range "A to B" / "A dian dao B dian" the extractor
\* returns start_time = A and end_time = B, not start_time + 1 hour.
C8_RangeGivesBothEnds ==
    pc = "parsed" =>
        \A i \in 1..Len(text) :
            IsRangeAt(text, i) =>
                /\ IsSome(result.start_time) /\ IsSome(result.end_time)
                /\ Val(result.start_time).h = NamedHour(text[i])
                /\ Val(result.start_time).mi = NamedMinute(text[i])
                /\ Val(result.end_time).h = NamedHour(text[i + 2])
                /\ Val(result.end_time).mi = NamedMinute(text[i + 2])

\* the text holds mingtian directly followed by xiawu H dian with H < 12 at
\* position i, and no other time literal
IsTomorrowAfternoonAt(txt, i) ==
    /\ i + 1 <= Len(txt)
    /\ IsWord(txt[i], {"mingtian"})
    /\ txt[i + 1].k = "zh" /\ txt[i + 1].ap = "xiawu" /\ txt[i + 1].h < 12
    /\ TimeLiterals(txt) = {i + 1}

\* C9: for an input with mingtian and xiawu H dian, H < 12, the start_time
\* has hour H + 12 and its date is one day after the reference date.
C9_TomorrowAfternoon ==
    pc = "parsed" =>
        \A i \in 1..Len(text) :
            IsTomorrowAfternoonAt(text, i) =>
                /\ IsSome(result.start_time)
                /\ Val(result.start_time).h = text[i + 1].h + 12
                /\ SameDate(Val(result.start_time), AddDays(now, 1))

\* date.toordinal(): the number of the day, counted from 0001-01-01
DaysBeforeYear(y) ==
    365 * (y - 1) + ((y - 1) \div 4) - ((y - 1) \div 100) + ((y - 1) \div 400)
DaysBeforeMonth(y, mo) ==
    <<0, 31, 59, 90, 120, 151, 181, 212, 243, 273, 304, 334>>[mo]
    + (IF mo > 2 /\ IsLeap(y) THEN 1 ELSE 0)
ToOrdinal(dt) == DaysBeforeYear(dt.y) + DaysBeforeMonth(dt.y, dt.mo) + dt.d

\* b is exactly one hour after a
OneHourApart(a, b) ==
    /\ ToOrdinal(b) * 24 + b.h = ToOrdinal(a) * 24 + a.h + 1
    /\ b.mi = a.mi /\ b.s = a.s /\ b.us = a.us

\* "<verb> ... at H[:MM](am|pm)" with no explicit end: the text opens with a
\* verb, holds "at" followed by an am/pm time, and names no range
IsVerbAtTime(txt) ==
    /\ txt # <<>>
    /\ IsWord(txt[1], {"create", "schedule", "add", "plan"})
    /\ \E i \in 2..(Len(txt) - 1) :
          /\ IsWord(txt[i], {"at"})
          /\ txt[i + 1].k = "en" /\ txt[i + 1].ap # ""
    /\ ~HasWord(txt, {"to", "until", "dao", "zhi"})

\* C10: for an input "<verb> ... at H[:MM](am|pm)" with no explicit end,
\* whenever a start_time is returned so is an end_time, and end_time is
\* start_time + 1 hour exactly, also across midnight.
C10_DefaultEndIsOneHourLater ==
    (pc = "parsed" /\ IsVerbAtTime(text) /\ IsSome(result.start_time)) =>
        /\ IsSome(result.end_time)
        /\ OneHourApart(Val(result.start_time), Val(result.end_time))

\* C10 happens: the start is in the 23:00 hour and the end is on the next day
C10_EndAfterMidnight ==
    /\ pc = "parsed"
    /\ IsVerbAtTime(text)
    /\ IsSome(result.start_time)
    /\ Val(result.start_time).h = 23
    /\ ~SameDate(Val(result.start_time), Val(result.end_time))

----------------------------------------------------------------------------
(* Properties of the model-assisted interpreter and its dispatcher *)

\* the completion text holds a "{" with a "}" somewhere after it
HasBracePair(content) ==
    \E i \in 1..Len(content) : \E j \in (i + 1)..Len(content) :
        content[i] = "{" /\ content[j] = "}"

\* the outcomes of the completion call that leave nothing to interpret: the
\* call failed, the body has not the expected shape, the text has no brace
\* pair, or the extracted text does not decode
NothingToInterpret(rep) ==
    \/ rep.kind \in FailureKinds
    \/ ~HasBracePair(rep.content)
    \/ ~JsonDecodes(JsonStr(rep.content))

\* C2: parse_command never raises to its caller, and for a failed call, a
\* body of unexpected shape, a text without a brace pair or an extracted
\* text that does not decode it returns intent = none with every other
\* field absent.
C2_ParseCommandNeverRaises ==
    pc = "parsed" =>
        /\ ~raised
        /\ NothingToInterpret(reply) =>
              (result.intent = None /\ DetailsAbsent(result))

\* C2 happens: a brace pair is found but the extracted text does not decode
C2_UndecodableText ==
    /\ pc = "parsed"
    /\ reply.kind = "ok"
    /\ HasBracePair(reply.content)
    /\ ~JsonDecodes(JsonStr(reply.content))
    /\ result = NoneCommand
    /\ ~raised

\* C3: a create command with title and start_time and without end_time
\* creates the event with end_time = start_time + 1 hour for every start
\* hour, 23 included; it never fails because of the start hour.
C3_CreateEndsOneHourLater ==
    ( /\ pc = "done"
      /\ result.intent = Some("create")
      /\ IsSome(result.title) /\ IsSome(result.start_time)
      /\ result.end_time = None
      /\ CalendarFor(selected_calendar) # "" ) =>
        /\ response = "created"
        /\ Len(calls) = 1
        /\ calls[1].op = "create_event"
        /\ calls[1].start_time = result.start_time
        /\ IsSome(calls[1].end_time)
        /\ OneHourApart(Val(result.start_time), Val(calls[1].end_time))

\* C4: a command of an intent other than delete that carries target_event
\* = "all" is handled as if target_event were absent: the literal "all" is
\* never passed to the calendar store as an event identifier.
C4_AllOnlyForDelete ==
    ( /\ pc = "done"
      /\ IsSome(result.intent) /\ result.intent # Some("delete")
      /\ result.target_event = Some("all") ) =>
        \A i \in 1..Len(calls) : calls[i].id # "all"

----------------------------------------------------------------------------
(* Properties settled with the second group of claims *)

\* a match gives no time: a string handed to _parse_time_string failed
MatchFails(match, txt, clock) ==
    ApplyMatch(NoTimeInfo, match, BaseDate(txt, clock), clock.y) = NoTimeInfo

\* the text holds time fragments and none of them parses
EveryFragmentFails(txt, clock) ==
    LET ms == AllMatches(NumTimePatterns, txt) IN
    /\ ms # <<>>
    /\ \A j \in 1..Len(ms) : MatchFails(ms[j], txt, clock)

DecodesToBody(rep) ==
    /\ rep.kind = "ok"
    /\ HasBracePair(rep.content)
    /\ JsonStr(rep.content) = <<"{", "B", "}">>

\* a time value of the object that is present and no valid ISO-8601 string
BadTime(v) == IsSome(v) /\ ~IsoValid(Val(v))

\* the timestamp of a time value of the object, absent when it is absent or
\* not valid
TimeOrAbsent(v) ==
    IF IsSome(v) /\ IsoValid(Val(v)) THEN Some(FromIsoFormat(Val(v))) ELSE None

\* C12: when the decoded object has a start_time or end_time that is not a
\* valid ISO-8601 string, only that field is dropped: the intent and the
\* other fields of the object are still returned.
C12_BadTimeDropsOnlyThatField ==
    ( /\ pc = "parsed"
      /\ DecodesToBody(reply)
      /\ (BadTime(reply.body.start_time) \/ BadTime(reply.body.end_time)) ) =>
        /\ result.intent = reply.body.intent
        /\ result.title = reply.body.title
        /\ result.description = reply.body.description
        /\ result.location = reply.body.location
        /\ result.target_event = reply.body.target_event
        /\ result.start_time = TimeOrAbsent(reply.body.start_time)
        /\ result.end_time = TimeOrAbsent(reply.body.end_time)

\* C13: _should_enable_reasoning returns true exactly when (1) the hour
\* is 0..6 and the text holds a time-of-day keyword, or (2) the text holds a
\* relative-time phrase and no specific-weekday phrase, or (3) the text holds
\* a fuzzy-time phrase; nothing but the text and the hour decides.
\* mingtian xiawu kaihui is true in the night hours only, xiazhou yi kaihui
\* is false.
C13_ReasoningHeuristic ==
    pc = "decided" =>
        /\ result.enable_reasoning <=>
              \/ (0 <= now.h /\ now.h <= 6 /\ ContainsAny(text, time_keywords))
              \/ (/\ ContainsAny(text, relative_time_patterns)
                  /\ ~ContainsAny(text, specific_date_patterns))
              \/ ContainsAny(text, vague_time_patterns)
        /\ text = <<"ming", "tian", "xia", "wu", "kai", "hui">> =>
              (result.enable_reasoning <=> now.h <= 6)
        /\ text = <<"xia", "zhou", "yi", "kai", "hui">> =>
              ~result.enable_reasoning

\* C13 happens: a weekday phrase holds the generic prefix xiazhou and the
\* heuristic answers false
C13_WeekdaySuppresses ==
    /\ pc = "decided"
    /\ text = <<"xia", "zhou", "yi", "kai", "hui">>
    /\ now.h = 3
    /\ ~result.enable_reasoning

\* the request itself failed: transport error, timeout, non-2xx status
RequestFailed(rep) == rep.kind \in {"network_error", "timeout", "http_error"}

\* C14: an invocation of parse_command sends at most one request to the
\* completion service; after a failed request no second one is sent and the
\* one result returned is the degraded intent = none record.
C14_AtMostOneRequest ==
    /\ requests <= 1
    /\ (pc = "parsed" /\ RequestFailed(reply)) =>
          (requests = 1 /\ result = NoneCommand /\ ~raised)

\* C14 happens: the request timed out and was not repeated
C14_FailedOnce ==
    /\ pc = "parsed"
    /\ reply.kind = "timeout"
    /\ requests = 1
    /\ result.intent = None

\* C15: a second parse_intent on the same text returns the record the
\* first call returned, whatever happened between the two calls.
C15_RepeatedParseIsIdentical ==
    [][pc' = "parsed_again" => result' = result]_vars

\* C16: the record the interpreter returned is not changed by the
\* dispatcher: in every branch every field, target_event included, has the
\* value it had when the handler was called.
C16_CommandUnchangedByHandler ==
    pc = "done" => result = ParseCommand(reply).ret

\* the timestamp t has the fields the ISO string v names
SameInstant(t, v) ==
    /\ t.y = v.y /\ t.mo = v.mo /\ t.d = v.d
    /\ t.h = v.h /\ t.mi = v.mi /\ t.s = v.s /\ t.us = 0

\* C17: when the decoded object has a valid start_time and no end_time, the
\* returned record has no end_time, its start_time is the timestamp of the
\* string, and every other field is the object's.
C17_NoEndTimeInvented ==
    ( /\ pc = "parsed"
      /\ DecodesToBody(reply)
      /\ IsSome(reply.body.start_time) /\ ~BadTime(reply.body.start_time)
      /\ reply.body.end_time = None ) =>
        /\ result.end_time = None
        /\ IsSome(result.start_time)
        /\ SameInstant(Val(result.start_time), Val(reply.body.start_time))
        /\ result.intent = reply.body.intent
        /\ result.title = reply.body.title
        /\ result.description = reply.body.description
        /\ result.location = reply.body.location
        /\ result.target_event = reply.body.target_event

\* C17 happens: a create command for 23:30 without end_time comes back with
\* its start_time and without end_time
C17_StartOnly ==
    /\ pc = "parsed"
    /\ DecodesToBody(reply)
    /\ reply.body.end_time = None
    /\ result.intent = Some("create")
    /\ result.start_time = Some(DT(2025, 3, 3, 23, 30, 0, 0))
    /\ result.end_time = None

\* a decodable object stands at chunks i..i+2 of the completion text
ObjectAt(content, i) ==
    /\ i + 2 <= Len(content)
    /\ content[i] = "{" /\ content[i + 1] = "B" /\ content[i + 2] = "}"
OpenBefore(content, i) == \E j \in 1..(i - 1) : content[j] = "{"
CloseAfter(content, i) == \E j \in (i + 3)..Len(content) : content[j] = "}"
BraceAround(content, i) ==
    \E j \in (1..(i - 1)) \cup ((i + 3)..Len(content)) : content[j] \in {"{", "}"}
GoodTimes(body) == ~BadTime(body.start_time) /\ ~BadTime(body.end_time)
FieldsOf(res, body) ==
    /\ res.intent = body.intent
    /\ res.title = body.title
    /\ res.description = body.description
    /\ res.location = body.location
    /\ res.target_event = body.target_event
    /\ IsSome(res.start_time) = IsSome(body.start_time)
    /\ IsSome(res.end_time) = IsSome(body.end_time)

\* C18 (as amended): the text decoded is the one from the first '{' to the
\* last '}'. A completion without a '{', or without a '}' after the first
\* '{', gives the all-absent record. An object with valid times is parsed
\* into its fields when no '{' stands before it and no '}' after it, whatever
\* else surrounds it (prose, a '}' before, a '{' after); a '{' before it or a
\* '}' after it gives intent = none.
C18_FirstOpenToLastClose ==
    (pc = "parsed" /\ reply.kind = "ok") =>
        /\ ~HasBracePair(reply.content) =>
              (result.intent = None /\ DetailsAbsent(result))
        /\ \A i \in 1..Len(reply.content) :
              (ObjectAt(reply.content, i) /\ GoodTimes(reply.body)) =>
                 IF OpenBefore(reply.content, i) \/ CloseAfter(reply.content, i)
                 THEN result.intent = None /\ DetailsAbsent(result)
                 ELSE FieldsOf(result, reply.body)

\* C18 happens: a create object follows an opening brace and is not parsed
C18_OpenBraceBeforeObject ==
    /\ pc = "parsed" /\ reply.kind = "ok"
    /\ \E i \in 1..Len(reply.content) :
          ObjectAt(reply.content, i) /\ OpenBefore(reply.content, i)
    /\ GoodTimes(reply.body)
    /\ reply.body.intent = Some("create")
    /\ result.intent = None

\* C18 as stated: an object with any further brace before or after it gives
\* intent = none
C18_AnyFurtherBraceRejects ==
    (pc = "parsed" /\ reply.kind = "ok") =>
        \A i \in 1..Len(reply.content) :
            ( /\ ObjectAt(reply.content, i)
              /\ GoodTimes(reply.body)
              /\ BraceAround(reply.content, i) ) => result.intent = None

\* the handler called create_event of the calendar store
CreateCalled == \E i \in 1..Len(calls) : calls[i].op = "create_event"

\* C19: for a create command, in either dispatcher, create_event is called
\* only if title and start_time are both present; with the title missing the
\* response is the title guidance, with only the time missing it is the time
\* guidance, and in both cases no call reaches the calendar store.
C19_CreateNeedsTitleAndTime ==
    (pc = "done" /\ result.intent = Some("create")) =>
        /\ CreateCalled => (IsSome(result.title) /\ IsSome(result.start_time))
        /\ ~IsSome(result.title) => (response = "need_title" /\ calls = <<>>)
        /\ (IsSome(result.title) /\ ~IsSome(result.start_time)) =>
              (response = "need_time" /\ calls = <<>>)

\* C19 happens: the pattern path is told to create something without a
\* title, and asks for the title without touching the store
C19_TitleAskedFor ==
    /\ pc = "done"
    /\ text # <<>>
    /\ result.intent = Some("create")
    /\ ~IsSome(result.title)
    /\ IsSome(result.start_time)
    /\ response = "need_title"
    /\ calls = <<>>

\* today 00:00:00 and today 23:59:59 on the clock of the command
TodayStart == [now EXCEPT !.h = 0, !.mi = 0, !.s = 0, !.us = 0]
TodayEnd == [now EXCEPT !.h = 23, !.mi = 59, !.s = 59, !.us = 0]

\* C20: for a read command, in either dispatcher, the events are retrieved
\* by title search when a title is present and by range query otherwise, and
\* a command without start_time uses the range today 00:00 to today 23:59
\* and ends with a listing or a no-events message, never the error message.
C20_ReadDefaultsToToday ==
    (pc = "done" /\ result.intent = Some("read") /\ ~IsSome(result.start_time)) =>
        /\ response \in {"listing", "no_events_today"}
        /\ Len(calls) = 1
        /\ IsSome(result.title) => calls[1].op = "search_events"
        /\ ~IsSome(result.title) =>
              /\ calls[1].op = "get_events"
              /\ calls[1].start_time = Some(TodayStart)
              /\ calls[1].end_time = Some(TodayEnd)

----------------------------------------------------------------------------
(* Concurrent interpretation requests on the one agent of app.py *)

\* number of requests in progress at once, and of clock ticks between steps
NumRequests == 2
MaxTicks == 1

\* variant: the locals are kept as attributes of the shared parser object
SharedFrame(r) == 1

\* the frame that holds the local variables of the call serving request r:
\* every call of a method has a frame of its own
Frame(r) == r

\* the locals of parse_intent (result) and of parse_command (system_prompt,
\* response) before the call has assigned them
NoLocals == [result |-> EmptyResult, system_prompt |-> <<>>, response |-> NoReply]

\* inputs of the concurrent requests
ConcurrentClock == DT(2025, 3, 2, 14, 20, 0, 0)
ConcurrentTexts ==
    {<<W("create"), W("meeting")>>, <<W("show"), W("my"), W("schedule")>>,
     <<W("anpai"), W("lunch"), W("at"), EN(3, NoMin, "pm")>>}
ConcurrentReplies ==
    {[kind |-> "timeout", content |-> <<>>, body |-> NoneCommand],
     [kind |-> "ok", content |-> <<"{", "B", "}">>,
      body |-> [NoneCommand EXCEPT !.intent = Some("create"), !.title = Some("sync")]],
     [kind |-> "ok", content |-> <<"prose", "{", "B", "}">>,
      body |-> [NoneCommand EXCEPT !.intent = Some("read")]]}
NewRequests ==
    {[kind |-> "pattern", text |-> t, reply |-> NoReply, at |-> "start",
      clock |-> ConcurrentClock, sent |-> <<>>, ret |-> EmptyResult] :
        t \in ConcurrentTexts}
    \cup
    {[kind |-> "model", text |-> <<>>, reply |-> rep, at |-> "start",
      clock |-> ConcurrentClock, sent |-> <<>>, ret |-> NoneCommand] :
        rep \in ConcurrentReplies}

InitConcurrent ==
    /\ pc = "serving"
    /\ text = <<>>
    /\ now = ConcurrentClock
    /\ result = NoneCommand
    /\ reply = NoReply
    /\ raised = FALSE
    /\ requests = 0
    /\ selected_calendar = ""
    /\ store = EmptyStore
    /\ calls = <<>>
    /\ response = ""
    /\ parser = TheParser
    /\ reqs \in [1..NumRequests -> NewRequests]
    /\ frames = [c \in 1..NumRequests |-> NoLocals]

\* parse_intent, first half: the result dict is made and the intent scored
\* against self.intent_patterns
ParseIntentScore ==
    \E r \in 1..NumRequests :
        /\ reqs[r].kind = "pattern" /\ reqs[r].at = "start"
        /\ parser.intent_patterns = TheParser.intent_patterns
        /\ frames' = [frames EXCEPT ![Frame(r)].result =
                         [EmptyResult EXCEPT
                            !.intent = ClassifyIntent(reqs[r].text),
                            !.confidence = Confidence(reqs[r].text)]]
        /\ reqs' = [reqs EXCEPT ![r].at = "scored"]
        /\ UNCHANGED <<pc, text, now, result, reply, raised, requests,
                       selected_calendar, store, calls, response, parser>>

\* parse_intent, second half: the details are extracted (the clock is read
\* there), result.update(details), return result
ParseIntentDetails ==
    \E r \in 1..NumRequests :
        /\ reqs[r].kind = "pattern" /\ reqs[r].at = "scored"
        /\ \E d \in {ExtractEventDetails(reqs[r].text, now)} :
              reqs' = [reqs EXCEPT
                         ![r].at = "returned",
                         ![r].clock = now,
                         ![r].ret = [frames[Frame(r)].result EXCEPT
                                       !.title = d.title,
                                       !.start_time = d.start_time,
                                       !.end_time = d.end_time,
                                       !.location = d.location,
                                       !.description = d.description]]
        /\ UNCHANGED <<pc, text, now, result, reply, raised, requests,
                       selected_calendar, store, calls, response, parser, frames>>

\* parse_command, first step: the clock is read and the local system_prompt
\* is formatted from self.system_prompt
ParseCommandFormat ==
    \E r \in 1..NumRequests :
        /\ reqs[r].kind = "model" /\ reqs[r].at = "start"
        /\ frames' = [frames EXCEPT ![Frame(r)].system_prompt =
                         <<parser.system_prompt, now>>]
        /\ reqs' = [reqs EXCEPT ![r].at = "prompted", ![r].clock = now]
        /\ UNCHANGED <<pc, text, now, result, reply, raised, requests,
                       selected_calendar, store, calls, response, parser>>

\* parse_command, second step: the request is posted with self.api_key to
\* self.api_url and the response is kept in a local
ParseCommandPost ==
    \E r \in 1..NumRequests :
        /\ reqs[r].kind = "model" /\ reqs[r].at = "prompted"
        /\ frames' = [frames EXCEPT ![Frame(r)].response = reqs[r].reply]
        /\ reqs' = [reqs EXCEPT
                      ![r].at = "posted",
                      ![r].sent = <<parser.api_url, parser.api_key,
                                    frames[Frame(r)].system_prompt>>]
        /\ requests' = requests + 1
        /\ UNCHANGED <<pc, text, now, result, reply, raised,
                       selected_calendar, store, calls, response, parser>>

\* parse_command, last step: the response is decoded and returned
ParseCommandReturn ==
    \E r \in 1..NumRequests :
        /\ reqs[r].kind = "model" /\ reqs[r].at = "posted"
        /\ reqs' = [reqs EXCEPT
                      ![r].at = "returned",
                      ![r].ret = ParseCommand(frames[Frame(r)].response).ret]
        /\ UNCHANGED <<pc, text, now, result, reply, raised, requests,
                       selected_calendar, store, calls, response, parser, frames>>

\* a minute passes between two steps
ClockTick ==
    /\ pc = "serving"
    /\ now.mi < ConcurrentClock.mi + MaxTicks
    /\ now' = [now EXCEPT !.mi = now.mi + 1]
    /\ UNCHANGED <<pc, text, result, reply, raised, requests, selected_calendar,
                   store, calls, response, parser, reqs, frames>>

NextConcurrent ==
    \/ ParseIntentScore \/ ParseIntentDetails
    \/ ParseCommandFormat \/ ParseCommandPost \/ ParseCommandReturn
    \/ ClockTick

SpecConcurrent == InitConcurrent /\ [][NextConcurrent]_vars

----------------------------------------------------------------------------
(* Properties settled with the third group of claims *)

\* the update_event and delete_event calls the handler made
ActingCalls == {i \in 1..Len(calls) : calls[i].op \in {"update_event", "delete_event"}}

\* C21: an update or delete command that names no target_event and has a
\* title, and whose title search finds something, acts on the first match
\* only: exactly one update_event or delete_event call reaches the store.
C21_FirstMatchOnly ==
    ( /\ pc = "done"
      /\ result.intent \in {Some("update"), Some("delete")}
      /\ ParseCommand(reply).ret.target_event = None
      /\ IsSome(result.title)
      /\ response # "not_found" ) =>
        /\ Cardinality(ActingCalls) = 1
        /\ calls[1].op = "search_events"

\* C22: process_command of either dispatcher never raises and always
\* returns a response, whatever the interpreter returned and whether or not
\* a store call raised; a command without intent gets the clarification
\* request and no call reaches the calendar store.
C22_ProcessCommandNeverRaises ==
    pc = "done" =>
        /\ ~raised
        /\ response # ""
        /\ result.intent = None => (response = "clarify" /\ calls = <<>>)

\* C22 happens: create_event raises for a calendar that is gone, and the
\* command still ends with a response
C22_StoreCallRaised ==
    /\ pc = "done"
    /\ CalendarFor(selected_calendar) = ""
    /\ Len(calls) = 1 /\ calls[1].op = "create_event"
    /\ response = "error"
    /\ ~raised

\* what a request gets when it runs alone with its input, the clock it read
\* and the completion it received
RunAlone(q) ==
    IF q.kind = "model" THEN ParseCommand(q.reply).ret
    ELSE ParseIntent(q.text, q.clock)

\* C23: requests served concurrently by the one parser object leave its
\* attributes (intent patterns, prompt template, key, URL) as they were, and
\* under every interleaving each request returns what it would return alone
\* with the same input, clock and completion; the prompt it posts carries
\* the clock it read itself.
C23_ConcurrentRequestsIndependent ==
    /\ pc = "serving" => parser = TheParser
    /\ \A r \in DOMAIN reqs :
          /\ reqs[r].at = "returned" => reqs[r].ret = RunAlone(reqs[r])
          /\ reqs[r].at \in {"posted", "returned"} /\ reqs[r].kind = "model" =>
                reqs[r].sent = <<TheParser.api_url, TheParser.api_key,
                                 <<TheParser.system_prompt, reqs[r].clock>>>>

\* C23 happens: request 2 ran from start to end while request 1 was between
\* its two halves, on another text, at another minute, with another intent
C23_Interleaved ==
    /\ pc = "serving"
    /\ reqs[1].kind = "pattern" /\ reqs[1].at = "returned"
    /\ reqs[2].kind = "pattern" /\ reqs[2].at = "returned"
    /\ reqs[1].clock # reqs[2].clock
    /\ reqs[1].ret.intent = Some("create")
    /\ reqs[2].ret.intent = Some("read")
    /\ IsSome(reqs[1].ret.start_time)

\* the words of the create patterns: verbs, article, object nouns
CreatePhraseWords ==
    CreateVerbs1 \cup CreateVerbs2 \cup CreateVerbs3 \cup {"set", "up", "a"}
    \cup CreateNouns1

\* txt is a create-verb phrase with its object noun and nothing else: a
\* create pattern matches, no pattern of another intent does, every word
\* belongs to the phrase and an object noun is among them
IsCreatePhrase(txt) ==
    /\ \E p \in 1..NumPatterns : PatternMatches("create", p, txt)
    /\ \A i \in {"read", "update", "delete"} : \A p \in 1..NumPatterns :
          ~PatternMatches(i, p, txt)
    /\ \A j \in 1..Len(txt) : txt[j].k = "w" /\ txt[j].w \in CreatePhraseWords
    /\ \E j \in 1..Len(txt) : txt[j].w \in CreateNouns1

\* C24: an input that is a create-verb phrase with an object noun, without
\* time, location or description markers, is classified create with the
\* title absent and a confidence above zero.
C24_CreatePhraseHasNoTitle ==
    (pc = "parsed" /\ IsCreatePhrase(text)) =>
        /\ result.intent = Some("create")
        /\ result.title = None
        /\ result.confidence[1] > 0

\* C25: a read command of the model-assisted dispatcher for which the store
\* returns no events is answered with one of the three no-events messages,
\* whatever today's date and the queried date are.
C25_NoEventsAlwaysAnswered ==
    ( /\ pc = "done"
      /\ result.intent = Some("read")
      /\ Len(calls) = 1 /\ calls[1].op \in {"get_events", "search_events"}
      /\ FoundEvents(store, selected_calendar) = <<>> ) =>
        response \in {"no_events_today", "no_events_tomorrow", "no_events_dated"}

\* C26: in the pattern-path dispatcher a create command that carries title,
\* start_time and end_time is created with exactly that end_time, for every
\* start hour; the default-end computation cannot fail such a command.
C26_PresentEndTimeAlwaysCreated ==
    ( /\ pc = "done"
      /\ result.intent = Some("create")
      /\ IsSome(result.title)
      /\ IsSome(result.start_time)
      /\ IsSome(result.end_time) ) =>
        /\ response = "created"
        /\ Len(calls) = 1
        /\ calls[1].op = "create_event"
        /\ calls[1].end_time = result.end_time

\* the command a dispatcher hands to its delete handler, before the handler
\* touches it
HandedOver ==
    IF pc = "ready" THEN ParseIntent(text, now) ELSE ParseCommand(reply).ret

DeleteStep ==
    LET cmd == HandedOver
        found == FoundEvents(store, selected_calendar)
        dels == {i \in 1..Len(calls') : calls'[i].op = "delete_event"}
        ids == {calls'[i].id : i \in dels}
        untargeted == cmd.target_event \in {None, Some("all")}
    IN  /\ (untargeted /\ ~IsSome(cmd.title)) => dels = {}
        /\ untargeted => ids \subseteq {found[i] : i \in 1..Len(found)}
        /\ ~untargeted =>
               /\ Cardinality(dels) = 1
               /\ ids = {Val(cmd.target_event)}
        /\ \A e \in DOMAIN store : store'[e] # store[e] => e \in ids

\* C27: the delete handler of either dispatcher never deletes an unrelated
\* event: without target_event and title (or with "all" and no title) it
\* issues no delete call; with target_event absent or "all" every delete call
\* is for an event the title search returned; with a concrete target_event
\* there is exactly one delete call, for that identifier; and no event other
\* than those named in delete calls changes in the store.
C27_DeleteOnlyNamedEvents ==
    [][(pc' = "done" /\ pc # "done" /\ HandedOver.intent = Some("delete"))
           => DeleteStep]_vars

\* the pattern path resolved the target by title and deleted that one event
C27_DeletedByTitle ==
    /\ pc = "done"
    /\ text # <<>>
    /\ result.intent = Some("delete")
    /\ response = "deleted"
    /\ Len(calls) = 2
    /\ calls[1].op = "search_events"
    /\ calls[2].op = "delete_event"
    /\ \E e \in DOMAIN store : e # calls[2].id /\ store[e].cal # ""

\* C28: when process_command of the model-assisted agent is given a selected
\* calendar, every store call of that command is scoped to it; for update the
\* title search and the update_event call use the same calendar, so an event
\* the search resolved is found by the update.
C28_CallsScopedToSelectedCalendar ==
    (pc = "done" /\ selected_calendar # "") =>
        /\ \A i \in 1..Len(calls) : calls[i].cal = selected_calendar
        /\ ( /\ Len(calls) = 2
             /\ calls[1].op = "search_events"
             /\ calls[2].op = "update_event" ) => response = "updated"

====
